---- MODULE Spec2Model ----
(***************************************************************************)
(* Modelo 720 codec and validation engine (Modelo720/parser.py and         *)
(* Modelo720/declaracion.py).                                              *)
(*                                                                         *)
(* Python values are represented as follows.                               *)
(*   str      a sequence of one-character strings, <<"7","2","0">>         *)
(*   None     NoneStr for an Optional[str], NoDate for an Optional[date],  *)
(*            "None" for an Optional enum member                           *)
(*   int      an integer                                                   *)
(*   Decimal  an integer number of thousandths (1000.00 is 1000000), so    *)
(*            that truncation to cents is an operation that can lose       *)
(*            something                                                    *)
(*   date     a record [y, m, d]                                           *)
(*   Enum     the member's value, a one-character string                   *)
(*   BaseModel instance   a record of its fields                           *)
(*   a call's outcome     a record [kind |-> ...]: the returned value or   *)
(*            the exception that left the call                             *)
(***************************************************************************)
EXTENDS Integers, Sequences, FiniteSets, TLC

VARIABLES
    dec,        \* the Declaration object the caller holds
    nassign,    \* attribute assignments and appends made to it so far
    fwfile,     \* the fixed-width file: the chunks f.write received
    csvfile,    \* the CSV file: the rows csv.writer received
    ret,        \* the last call and how it ended
    nif,        \* argument of validar_nif
    nifres      \* its result

vars == <<dec, nassign, fwfile, csvfile, ret, nif, nifres>>

(***************************************************************************)
(* Characters and the str methods the code uses.                           *)
(***************************************************************************)
DigitChars == <<"0", "1", "2", "3", "4", "5", "6", "7", "8", "9">>

UpperChars ==
    <<"A", "B", "C", "D", "E", "F", "G", "H", "I", "J", "K", "L", "M",
      "N", "O", "P", "Q", "R", "S", "T", "U", "V", "W", "X", "Y", "Z">>

LowerChars ==
    <<"a", "b", "c", "d", "e", "f", "g", "h", "i", "j", "k", "l", "m",
      "n", "o", "p", "q", "r", "s", "t", "u", "v", "w", "x", "y", "z">>

Range(s) == {s[i] : i \in 1..Len(s)}

DigitSet == Range(DigitChars)

IsDigitChar(c) == c \in DigitSet

DigitVal(c) == CHOOSE v \in 0..9 : DigitChars[v + 1] = c

\* str.isspace for one character
IsSpaceChar(c) == c \in {" ", "\t", "\n", "\r"}

Repeat(c, n) == IF n <= 0 THEN <<>> ELSE [i \in 1..n |-> c]

\* s[a-1:b] for 1-based a, b >= a - 1 (Python clips the slice to the string)
PySlice(s, a, b) ==
    IF a > Len(s) THEN <<>>
    ELSE SubSeq(s, a, IF b > Len(s) THEN Len(s) ELSE b)

\* str.upper on one character
UpperChar(c) ==
    IF \E i \in 1..26 : LowerChars[i] = c
    THEN UpperChars[CHOOSE i \in 1..26 : LowerChars[i] = c]
    ELSE c

\* str.lower on one character
LowerChar(c) ==
    IF \E i \in 1..26 : UpperChars[i] = c
    THEN LowerChars[CHOOSE i \in 1..26 : UpperChars[i] = c]
    ELSE c

StrUpper(s) == [i \in 1..Len(s) |-> UpperChar(s[i])]

StrLower(s) == [i \in 1..Len(s) |-> LowerChar(s[i])]

\* the number of leading whitespace characters of s
LeadingSpaces(s) ==
    CHOOSE n \in 0..Len(s) :
        /\ n = Len(s) \/ ~IsSpaceChar(s[n + 1])
        /\ \A j \in 1..n : IsSpaceChar(s[j])

\* the number of trailing characters of s that are in cs
TrailingIn(s, cs) ==
    LET last == CHOOSE i \in 0..Len(s) :
                   /\ i = 0 \/ s[i] \notin cs
                   /\ \A j \in (i + 1)..Len(s) : s[j] \in cs
    IN Len(s) - last

\* str.rstrip(chars)
RstripChars(s, cs) == SubSeq(s, 1, Len(s) - TrailingIn(s, cs))

\* str.rstrip()
Rstrip(s) == RstripChars(s, {" ", "\t", "\n", "\r"})

\* str.lstrip()
Lstrip(s) == SubSeq(s, LeadingSpaces(s) + 1, Len(s))

\* str.strip()
Strip(s) == Lstrip(Rstrip(s))

\* str.isdigit, and re.fullmatch(r"[0-9]+", s), on ASCII text
IsDigits(s) == s # <<>> /\ \A i \in 1..Len(s) : IsDigitChar(s[i])

\* str.ljust(w)
Ljust(s, w) == IF Len(s) >= w THEN s ELSE s \o Repeat(" ", w - Len(s))

\* str.zfill(w): a leading sign stays in front of the zeros
Zfill(s, w) ==
    IF Len(s) >= w THEN s
    ELSE IF s # <<>> /\ s[1] \in {"+", "-"}
         THEN <<s[1]>> \o Repeat("0", w - Len(s)) \o Tail(s)
         ELSE Repeat("0", w - Len(s)) \o s

\* int(s) for a string of digits
RECURSIVE DigitsToInt(_)
DigitsToInt(s) ==
    IF s = <<>> THEN 0
    ELSE 10 * DigitsToInt(SubSeq(s, 1, Len(s) - 1)) + DigitVal(s[Len(s)])

\* str(n) for n >= 0
RECURSIVE NatToStr(_)
NatToStr(n) ==
    IF n < 10 THEN <<DigitChars[n + 1]>>
    ELSE NatToStr(n \div 10) \o <<DigitChars[(n % 10) + 1]>>

\* str(n) for an int
IntToStr(n) == IF n < 0 THEN <<"-">> \o NatToStr(-n) ELSE NatToStr(n)

(***************************************************************************)
(* Checksum of national identity numbers.                                  *)
(***************************************************************************)
\* the table in lower case, which no upper-cased control letter matches
tabla_minusculas ==
    <<"t", "r", "w", "a", "g", "m", "y", "f", "p", "d", "x", "b",
      "n", "j", "z", "s", "q", "v", "h", "l", "c", "k", "e">>

tabla ==
    <<"T", "R", "W", "A", "G", "M", "Y", "F", "P", "D", "X", "B",
      "N", "J", "Z", "S", "Q", "V", "H", "L", "C", "K", "E">>

\* a replacement table that maps every NIE prefix to the same digit
reemplazo_todo_cero(c) == "0"

reemplazo(c) == CASE c = "X" -> "0" [] c = "Y" -> "1" [] c = "Z" -> "2"

validar_nif(s) ==
    IF s = <<>> THEN FALSE
    ELSE
      LET u == Strip(StrUpper(s)) IN
      IF Len(u) = 9 /\ IsDigits(SubSeq(u, 1, 8))
      THEN tabla[(DigitsToInt(SubSeq(u, 1, 8)) % 23) + 1] = u[9]
      ELSE IF Len(u) = 9 /\ u[1] \in {"X", "Y", "Z"} /\ IsDigits(SubSeq(u, 2, 8))
      THEN tabla[(DigitsToInt(<<reemplazo(u[1])>> \o SubSeq(u, 2, 8)) % 23) + 1] = u[9]
      ELSE FALSE

(***************************************************************************)
(* Field schema.                                                           *)
(***************************************************************************)
MODEL_CODE == <<"7", "2", "0">>

\* a FieldSpec whose start is taken as a 0-based offset
FieldSpec_zero_based(name, start, end, transform, required) ==
    [name |-> name, start |-> start - 1, end |-> end, transform |-> transform,
     enum_class |-> "None", required |-> required]

FieldSpec(name, start, end, transform, required) ==
    [name |-> name, start |-> start, end |-> end, transform |-> transform,
     enum_class |-> "None", required |-> required]

EnumFieldSpec(name, start, end, enum_class) ==
    [name |-> name, start |-> start, end |-> end, transform |-> "enum",
     enum_class |-> enum_class, required |-> TRUE]

HEADER_FIELDS ==
    << FieldSpec("tipo_registro", 1, 1, "int", TRUE),
       FieldSpec("modelo", 2, 4, "str", TRUE),
       FieldSpec("ejercicio", 5, 8, "int", TRUE),
       FieldSpec("nif_declarante", 9, 17, "str", TRUE),
       FieldSpec("nombre_razon", 18, 57, "str", TRUE),
       FieldSpec("tipo_soporte", 58, 58, "str", TRUE),
       FieldSpec("telefono_contacto", 59, 67, "str", FALSE),
       FieldSpec("persona_contacto", 68, 107, "str", FALSE),
       FieldSpec("numero_identificativo", 108, 120, "str", TRUE),
       FieldSpec("declaracion_complementaria", 121, 121, "bool_c", TRUE),
       FieldSpec("declaracion_sustitutiva", 122, 122, "bool_s", TRUE),
       FieldSpec("numero_identificativo_anterior", 123, 135, "str", FALSE),
       FieldSpec("numero_total_registros", 136, 144, "int", TRUE),
       FieldSpec("suma_valoracion_1", 145, 162, "valoracion", TRUE),
       FieldSpec("suma_valoracion_2", 163, 180, "valoracion", TRUE) >>

DETALLE_FIELDS ==
    << FieldSpec("tipo_registro", 1, 1, "int", TRUE),
       FieldSpec("modelo", 2, 4, "str", TRUE),
       FieldSpec("ejercicio", 5, 8, "int", TRUE),
       FieldSpec("nif_declarante", 9, 17, "str", TRUE),
       FieldSpec("nif_declarado", 18, 26, "str", TRUE),
       FieldSpec("nif_representante", 27, 35, "str", TRUE),
       FieldSpec("nombre_razon_declarado", 36, 75, "str", TRUE),
       FieldSpec("clave_condicion", 76, 76, "int", TRUE),
       FieldSpec("tipo_titularidad_texto", 77, 101, "str", TRUE),
       EnumFieldSpec("clave_tipo_bien", 102, 102, "ClaveBien"),
       FieldSpec("subclave", 103, 103, "int", TRUE),
       FieldSpec("tipo_derecho_real_inmueble", 104, 128, "str", TRUE),
       FieldSpec("codigo_pais", 129, 130, "str", TRUE),
       FieldSpec("clave_identificacion", 131, 131, "int", TRUE),
       FieldSpec("identificacion_valores", 132, 143, "str", TRUE),
       FieldSpec("clave_ident_cuenta", 144, 144, "str", TRUE),
       FieldSpec("codigo_bic", 145, 155, "str", TRUE),
       FieldSpec("codigo_cuenta", 156, 189, "str", TRUE),
       FieldSpec("identificacion_entidad", 190, 230, "str", TRUE),
       FieldSpec("nif_entidad_pais_residencia", 231, 250, "str", TRUE),
       FieldSpec("domicilio_via_num", 251, 302, "str", TRUE),
       FieldSpec("domicilio_complemento", 303, 342, "str", TRUE),
       FieldSpec("domicilio_poblacion", 343, 372, "str", TRUE),
       FieldSpec("domicilio_region", 373, 402, "str", TRUE),
       FieldSpec("domicilio_cp", 403, 412, "str", TRUE),
       FieldSpec("domicilio_pais", 413, 414, "str", TRUE),
       FieldSpec("fecha_incorporacion", 415, 422, "date8", FALSE),
       EnumFieldSpec("origen", 423, 423, "Origen"),
       FieldSpec("fecha_extincion", 424, 431, "date8", FALSE),
       FieldSpec("valoracion_1", 432, 446, "valoracion", TRUE),
       FieldSpec("valoracion_2", 447, 461, "valoracion", TRUE),
       FieldSpec("clave_repr_valores", 462, 462, "str", TRUE),
       FieldSpec("numero_valores_entera", 463, 472, "int", TRUE),
       FieldSpec("numero_valores_decimal", 473, 474, "int", TRUE),
       FieldSpec("clave_tipo_bien_inmueble", 475, 475, "str", TRUE),
       FieldSpec("porcentaje_participacion_entera", 476, 478, "int", TRUE),
       FieldSpec("porcentaje_participacion_decimal", 479, 480, "int", TRUE) >>

\* the width every written line is padded to
LINE_LEN == 500

FieldNames(fields) == {fields[i].name : i \in 1..Len(fields)}

(***************************************************************************)
(* Values: enums, None, dates, Decimal, Valoracion.                        *)
(***************************************************************************)
ClaveBien == {"C", "V", "I", "S", "B"}

Origen == {"A", "M", "C"}

EnumMembers(enum_class) == IF enum_class = "ClaveBien" THEN ClaveBien ELSE Origen

NoneStr == <<"None">>

NoDate == [y |-> 0, m |-> 0, d |-> 0]

Ok(v) == [ok |-> TRUE, v |-> v]

Raise(exc) == [ok |-> FALSE, exc |-> exc]

IsLeap(y) == (y % 4 = 0 /\ y % 100 # 0) \/ y % 400 = 0

DaysInMonth(y, m) ==
    IF m = 2 THEN (IF IsLeap(y) THEN 29 ELSE 28)
    ELSE IF m \in {4, 6, 9, 11} THEN 30 ELSE 31

\* datetime.date(y, m, d): ValueError unless it is a day of the calendar
date(y, m, d) ==
    IF y \in 1..9999 /\ m \in 1..12 /\ d \in 1..DaysInMonth(y, m)
    THEN Ok([y |-> y, m |-> m, d |-> d])
    ELSE Raise("ValueError")

\* date.strftime("%Y%m%d"), for the four-digit years the model uses
strftime_Ymd(dt) ==
    Zfill(NatToStr(dt.y), 4) \o Zfill(NatToStr(dt.m), 2) \o Zfill(NatToStr(dt.d), 2)

\* date.isoformat()
isoformat(dt) ==
    Zfill(NatToStr(dt.y), 4) \o <<"-">> \o Zfill(NatToStr(dt.m), 2)
        \o <<"-">> \o Zfill(NatToStr(dt.d), 2)

\* date.fromisoformat(s) for YYYY-MM-DD
fromisoformat(s) ==
    IF /\ Len(s) = 10
       /\ IsDigits(SubSeq(s, 1, 4)) /\ s[5] = "-"
       /\ IsDigits(SubSeq(s, 6, 7)) /\ s[8] = "-"
       /\ IsDigits(SubSeq(s, 9, 10))
    THEN date(DigitsToInt(SubSeq(s, 1, 4)), DigitsToInt(SubSeq(s, 6, 7)),
              DigitsToInt(SubSeq(s, 9, 10)))
    ELSE Raise("ValueError")

Abs(n) == IF n < 0 THEN -n ELSE n

\* integer division that truncates toward zero, as int() and ROUND_DOWN do
TruncDiv(n, k) == IF n < 0 THEN -((-n) \div k) ELSE n \div k

\* Decimal.quantize(Decimal("0.01"), rounding=ROUND_DOWN)
quantize_cents_down(m) == TruncDiv(m, 10) * 10

\* str(Decimal): two decimals for whole cents, three otherwise
DecimalToStr(m) ==
    LET a    == Abs(m)
        frac == IF a % 10 = 0 THEN Zfill(NatToStr((a % 1000) \div 10), 2)
                ELSE Zfill(NatToStr(a % 1000), 3)
    IN (IF m < 0 THEN <<"-">> ELSE <<>>) \o NatToStr(a \div 1000) \o <<".">> \o frac

IndexOf(s, c) ==
    IF \E i \in 1..Len(s) : s[i] = c
    THEN CHOOSE i \in 1..Len(s) : s[i] = c /\ \A j \in 1..(i - 1) : s[j] # c
    ELSE 0

\* Decimal(s) for [+-]digits[.digits] with at most three decimals;
\* anything else the model's cells can hold is decimal.InvalidOperation
ParseDecimal(s) ==
    LET neg  == s # <<>> /\ s[1] = "-"
        body == IF s # <<>> /\ s[1] \in {"+", "-"} THEN Tail(s) ELSE s
        dot  == IndexOf(body, ".")
        ip   == IF dot = 0 THEN body ELSE SubSeq(body, 1, dot - 1)
        fp   == IF dot = 0 THEN <<>> ELSE SubSeq(body, dot + 1, Len(body))
    IN IF /\ (ip # <<>> \/ fp # <<>>)
          /\ \A i \in 1..Len(ip) : IsDigitChar(ip[i])
          /\ \A i \in 1..Len(fp) : IsDigitChar(fp[i])
          /\ Len(fp) <= 3
       THEN LET mag == DigitsToInt(ip) * 1000
                       + DigitsToInt(fp \o Repeat("0", 3 - Len(fp)))
            IN Ok(IF neg THEN -mag ELSE mag)
       ELSE Raise("InvalidOperation")

\* Valoracion(signo=..., importe=...): the class declares no validator
Valoracion(signo, importe) == [signo |-> signo, importe |-> importe]

\* Valoracion(signo=..., importe=...): signo must be a str, and any str is taken
Valoracion_new(signo, importe) ==
    IF signo = NoneStr
    THEN [ok |-> FALSE, exc |-> "ValidationError",
          errors |-> <<[rec |-> 0, field |-> "signo", msg |-> "Input should be a valid string"]>>]
    ELSE [ok |-> TRUE, v |-> Valoracion(signo, importe)]

\* Valoracion(sign, amount): BaseModel.__init__ takes keyword arguments only
Valoracion_positional(signo, importe) == Raise("TypeError")

(***************************************************************************)
(* Value codec and record codec, fixed-width side (class Parser).          *)
(***************************************************************************)
_slice(line, start, end) == PySlice(line, start, end)

_to_int(s0) ==
    LET s == Strip(s0) IN
    IF s = <<>> THEN Ok(0)
    ELSE IF ~IsDigits(s) THEN Raise("ValueError")
    ELSE Ok(DigitsToInt(s))

_to_decimal_from_cents(sign_char, cents_str) ==
    IF Strip(cents_str) = <<>> THEN Ok(0)
    ELSE IF ~IsDigits(cents_str) THEN Raise("ValueError")
    ELSE LET val == DigitsToInt(cents_str) * 10
         IN Ok(quantize_cents_down(IF sign_char = "N" THEN -val ELSE val))

_to_date8(s0) ==
    LET s == Strip(s0) IN
    IF s = <<>> \/ s = Repeat("0", 8) THEN Ok(NoDate)
    ELSE IF ~(Len(s) = 8 /\ IsDigits(s)) THEN Raise("ValueError")
    ELSE date(DigitsToInt(SubSeq(s, 1, 4)), DigitsToInt(SubSeq(s, 5, 6)),
              DigitsToInt(SubSeq(s, 7, 8)))

_parse_field(line, field_spec) ==
    LET raw_value == _slice(line, field_spec.start, field_spec.end) IN
    CASE field_spec.transform = "str" ->
           LET result == Rstrip(raw_value) IN
           IF result # <<>> \/ ~field_spec.required THEN Ok(result)
           ELSE Ok(IF field_spec.required THEN NoneStr ELSE <<>>)
      [] field_spec.transform = "int" -> _to_int(raw_value)
      [] field_spec.transform = "date8" -> _to_date8(raw_value)
      [] field_spec.transform = "bool_c" -> Ok(Strip(raw_value) = <<"C">>)
      [] field_spec.transform = "bool_s" -> Ok(Strip(raw_value) = <<"S">>)
      [] field_spec.transform = "enum" ->
           LET stripped == Strip(raw_value) IN
           IF stripped = <<>> THEN Ok("None")
           ELSE IF Len(stripped) = 1 /\ stripped[1] \in EnumMembers(field_spec.enum_class)
                THEN Ok(stripped[1])
                ELSE Raise("ValueError")
      [] field_spec.transform = "valoracion" ->
           LET sign_char  == IF raw_value # <<>> THEN raw_value[1] ELSE " "
               amount_str == IF Len(raw_value) > 1 THEN Tail(raw_value) ELSE <<>>
               importe    == _to_decimal_from_cents(sign_char, amount_str)
           IN IF ~importe.ok THEN importe
              ELSE Valoracion_positional(<<sign_char>>, importe.v)
      [] OTHER -> Raise("ValueError")

\* the least member of a set of positive numbers (0: the set is empty)
MinOrZero(S) == IF S = {} THEN 0 ELSE CHOOSE i \in S : \A j \in S : i <= j

\* the first field, in schema order, whose decoding raises (0: none does)
FirstFailing(line, field_specs) ==
    MinOrZero({i \in 1..Len(field_specs) : ~_parse_field(line, field_specs[i]).ok})

\* the dict of decoded fields, or ParserFormatError naming the field bad
parse_line_result(line, field_specs, bad) ==
    IF bad # 0
    THEN [ok |-> FALSE, exc |-> "ParserFormatError", field |-> field_specs[bad].name]
    ELSE Ok([n \in FieldNames(field_specs) |->
               _parse_field(line,
                   field_specs[CHOOSE k \in 1..Len(field_specs) :
                                  field_specs[k].name = n]).v])

\* Parser._parse_line
_parse_line(line, field_specs) ==
    parse_line_result(line, field_specs, FirstFailing(line, field_specs))

_format_field_value(record, field_spec) ==
    LET raw_value   == record[field_spec.name]
        field_width == field_spec.end - field_spec.start + 1
    IN
    CASE field_spec.transform = "str" ->
           LET value == IF raw_value # NoneStr THEN raw_value ELSE <<>>
           IN PySlice(Ljust(value, field_width), 1, field_width)
      [] field_spec.transform = "int" -> Zfill(IntToStr(raw_value), field_width)
      [] field_spec.transform = "date8" ->
           IF raw_value = NoDate THEN Repeat("0", 8) ELSE strftime_Ymd(raw_value)
      [] field_spec.transform = "bool_c" -> IF raw_value THEN <<"C">> ELSE <<" ">>
      [] field_spec.transform = "bool_s" -> IF raw_value THEN <<"S">> ELSE <<" ">>
      [] field_spec.transform = "enum" ->
           IF raw_value # "None" THEN <<raw_value>> ELSE <<" ">>
      [] field_spec.transform = "valoracion" ->
           LET sign       == raw_value.signo
               cents      == TruncDiv(raw_value.importe, 10)
               amount_str == Zfill(IntToStr(cents), field_width - 1)
           IN sign \o amount_str

\* the concatenation of the encoded fields fields[i..], in schema order
RECURSIVE FormatFields(_, _, _)
FormatFields(record, fields, i) ==
    IF i > Len(fields) THEN <<>>
    ELSE _format_field_value(record, fields[i]) \o FormatFields(record, fields, i + 1)

_format_header_line(header) == Ljust(FormatFields(header, HEADER_FIELDS, 1), LINE_LEN)

_format_detalle_line(detalle) == Ljust(FormatFields(detalle, DETALLE_FIELDS, 1), LINE_LEN)

(***************************************************************************)
(* The pydantic models of declaracion.py.  Validating a model collects one *)
(* error per failing field; the model's "after" validator runs only when   *)
(* no field failed, and its first raise ends it.                           *)
(***************************************************************************)
Err(rec, field, msg) == [rec |-> rec, field |-> field, msg |-> msg]

\* the errors of cands (a sequence of [bad, err]) whose check failed, in order
Failed(cands) ==
    LET hit == SelectSeq(cands, LAMBDA c : c.bad)
    IN [i \in 1..Len(hit) |-> hit[i].err]

\* at most the first error of cands: a validator stops at its first raise
FirstFailed(cands) ==
    LET hit == Failed(cands) IN IF hit = <<>> THEN <<>> ELSE <<hit[1]>>

Cand(bad, err) == [bad |-> bad, err |-> err]

\* a str field with Field(max_length=n)
StrFieldBad(v, n) == v = NoneStr \/ Len(v) > n

\* an Optional[str] field with Field(max_length=n)
OptStrFieldBad(v, n) == v # NoneStr /\ Len(v) > n

\* `not s or not s.strip()`
IsBlank(s) == s = <<>> \/ Strip(s) = <<>>

StartsWith(s, p) == Len(s) >= Len(p) /\ SubSeq(s, 1, Len(p)) = p

\* Header720.validate_nif_declarante
Header_validate_nif_declarante(v) == validar_nif(v)

\* the check of modelo720.py _validate_business_rules: 13 digits, any prefix
validate_numero_identificativo_legacy(v) ==
    IF ~IsDigits(v) \/ Len(v) # 13 THEN "El numero identificativo debe tener 13 digitos"
    ELSE "ok"

\* Header720.validate_numero_identificativo: the message of its raise, or "ok"
validate_numero_identificativo(v) ==
    IF ~IsDigits(v) \/ Len(v) # 13 THEN "El numero identificativo debe tener 13 digitos"
    ELSE IF ~StartsWith(v, MODEL_CODE) THEN "El numero identificativo debe comenzar con 720"
    ELSE "ok"

\* the field validation of Header720, every field checked
Header720_field_errors(h, r) ==
    Failed(<<
      Cand(h.tipo_registro # 1, Err(r, "tipo_registro", "Input should be 1")),
      Cand(h.modelo # MODEL_CODE, Err(r, "modelo", "Input should be '720'")),
      Cand(StrFieldBad(h.nif_declarante, 9),
           Err(r, "nif_declarante", "String should have at most 9 characters")),
      Cand(~StrFieldBad(h.nif_declarante, 9)
             /\ ~Header_validate_nif_declarante(h.nif_declarante),
           Err(r, "nif_declarante", "Formato de NIF invalido para nif_declarante")),
      Cand(StrFieldBad(h.nombre_razon, 40),
           Err(r, "nombre_razon", "String should have at most 40 characters")),
      Cand(h.tipo_soporte # <<"T">>, Err(r, "tipo_soporte", "Input should be 'T'")),
      Cand(OptStrFieldBad(h.telefono_contacto, 9),
           Err(r, "telefono_contacto", "String should have at most 9 characters")),
      Cand(OptStrFieldBad(h.persona_contacto, 40),
           Err(r, "persona_contacto", "String should have at most 40 characters")),
      Cand(StrFieldBad(h.numero_identificativo, 13),
           Err(r, "numero_identificativo", "String should have at most 13 characters")),
      Cand(~StrFieldBad(h.numero_identificativo, 13)
             /\ validate_numero_identificativo(h.numero_identificativo) # "ok",
           Err(r, "numero_identificativo",
               validate_numero_identificativo(h.numero_identificativo))),
      Cand(OptStrFieldBad(h.numero_identificativo_anterior, 13),
           Err(r, "numero_identificativo_anterior",
               "String should have at most 13 characters")) >>)

\* the checks of Header720.validate_header_rules, in the order of the source
header_rule_checks(h, r) ==
    LET ant == h.numero_identificativo_anterior
        flagged == h.declaracion_complementaria \/ h.declaracion_sustitutiva
    IN <<
      Cand(h.declaracion_complementaria /\ h.declaracion_sustitutiva,
           Err(r, "__model__", "complementaria y sustitutiva al mismo tiempo")),
      Cand(flagged /\ (ant = NoneStr \/ ant = <<>>),
           Err(r, "__model__", "Se requiere numero_identificativo_anterior")),
      Cand(flagged /\ ant # NoneStr /\ ant # <<>> /\ (~IsDigits(ant) \/ Len(ant) # 13),
           Err(r, "__model__", "El numero_identificativo_anterior debe tener 13 digitos"))
      >>

\* header rules that know the exclusivity of the two flags and nothing of the
\* prior filing identifier
validate_header_rules_flags_only(h, r) == FirstFailed(SubSeq(header_rule_checks(h, r), 1, 1))

\* Header720.validate_header_rules: every check is a raise
validate_header_rules(h, r) == FirstFailed(header_rule_checks(h, r))

\* the errors of a first stage, or those of the stage that runs when it has none
OrElse(errs, later) == IF errs # <<>> THEN errs ELSE later

\* the outcome of a constructor: ValidationError with errs, or the object v
Constructed(errs, v) ==
    IF errs # <<>> THEN [ok |-> FALSE, exc |-> "ValidationError", errors |-> errs]
    ELSE Ok(v)

\* the validation of Header720 data: its errors
Header720_errors(h, r) == OrElse(Header720_field_errors(h, r), validate_header_rules(h, r))

\* Header720(**fields): the validators return the NIF upper-cased and stripped
Header720_new(h, r) ==
    Constructed(Header720_errors(h, r), [h EXCEPT !.nif_declarante = Strip(StrUpper(@))])

\* Detalle720.validate_nif_declarado, validate_nif_representante
validate_nif_opcional(v) == v = <<>> \/ validar_nif(v)

\* the field validation of Detalle720, every field checked
Detalle720_field_errors(d, r) ==
    LET StrCand(name, n) ==
          Cand(StrFieldBad(d[name], n), Err(r, name, "Input should be a valid string of the field's length"))
    IN Failed(<<
      Cand(d.tipo_registro # 2, Err(r, "tipo_registro", "Input should be 2")),
      Cand(d.modelo # MODEL_CODE, Err(r, "modelo", "Input should be '720'")),
      StrCand("nif_declarante", 9),
      Cand(~StrFieldBad(d.nif_declarante, 9) /\ ~validar_nif(d.nif_declarante),
           Err(r, "nif_declarante", "Invalid NIF format for nif_declarante")),
      StrCand("nif_declarado", 9),
      Cand(~StrFieldBad(d.nif_declarado, 9) /\ ~validate_nif_opcional(d.nif_declarado),
           Err(r, "nif_declarado", "Invalid NIF format for nif_declarado")),
      StrCand("nif_representante", 9),
      Cand(~StrFieldBad(d.nif_representante, 9)
             /\ ~validate_nif_opcional(d.nif_representante),
           Err(r, "nif_representante", "Invalid NIF format for nif_representante")),
      StrCand("nombre_razon_declarado", 40),
      Cand(d.clave_condicion \notin 1..8,
           Err(r, "clave_condicion", "Input should be between 1 and 8")),
      StrCand("tipo_titularidad_texto", 25),
      Cand(d.clave_tipo_bien \notin ClaveBien,
           Err(r, "clave_tipo_bien", "Input should be 'C', 'V', 'I', 'S' or 'B'")),
      StrCand("tipo_derecho_real_inmueble", 25),
      StrCand("codigo_pais", 2),
      StrCand("identificacion_valores", 12),
      StrCand("clave_ident_cuenta", 1),
      StrCand("codigo_bic", 11),
      StrCand("codigo_cuenta", 34),
      StrCand("identificacion_entidad", 41),
      StrCand("nif_entidad_pais_residencia", 20),
      StrCand("domicilio_via_num", 52),
      StrCand("domicilio_complemento", 40),
      StrCand("domicilio_poblacion", 30),
      StrCand("domicilio_region", 30),
      StrCand("domicilio_cp", 10),
      StrCand("domicilio_pais", 2),
      Cand(d.origen \notin Origen, Err(r, "origen", "Input should be 'A', 'M' or 'C'")),
      StrCand("clave_repr_valores", 1),
      StrCand("clave_tipo_bien_inmueble", 1) >>)

\* the checks of Detalle720.validate_detail_rules, in the order of the source
detail_rule_checks(d, r) ==
    LET bien == d.clave_tipo_bien
        VI   == bien \in {"V", "I"}
        E(msg) == Err(r, "__model__", msg)
    IN <<
      Cand(bien = "I" /\ d.subclave # 0, E("subclave must be 0 for clave_tipo_bien 'I'")),
      Cand(bien = "C" /\ d.subclave \notin 1..5, E("subclave debe ser 1-5 para clave_tipo_bien 'C'")),
      Cand(bien = "V" /\ d.subclave \notin 1..3, E("subclave debe ser 1-3 para clave_tipo_bien 'V'")),
      Cand(bien = "S" /\ d.subclave \notin 1..2, E("subclave debe ser 1-2 para clave_tipo_bien 'S'")),
      Cand(bien = "B" /\ d.subclave \notin 1..5, E("subclave debe ser 1-5 para clave_tipo_bien 'B'")),
      Cand(bien = "B" /\ d.subclave = 5 /\ IsBlank(d.tipo_derecho_real_inmueble),
           E("tipo_derecho_real_inmueble es obligatorio")),
      Cand(d.origen = "C" /\ d.fecha_extincion = NoDate,
           E("origen 'C' requires fecha_extincion")),
      Cand(bien = "C" /\ d.clave_ident_cuenta \notin {<<"I">>, <<"O">>, <<" ">>, <<>>},
           E("clave_ident_cuenta debe ser 'I', 'O', o en blanco")),
      Cand(bien = "B" /\ d.clave_tipo_bien_inmueble \notin {<<"U">>, <<"R">>, <<" ">>, <<>>},
           E("clave_tipo_bien_inmueble debe ser 'U', 'R', o en blanco")),
      Cand(bien = "B" /\ IsBlank(d.clave_tipo_bien_inmueble),
           E("clave_tipo_bien_inmueble es obligatorio")),
      Cand(VI /\ d.clave_identificacion \notin {1, 2},
           E("clave_identificacion debe ser 1 o 2")),
      Cand(~VI /\ d.clave_identificacion # 0, E("clave_identificacion debe ser 0")),
      Cand(VI /\ IsBlank(d.identificacion_valores),
           E("identificacion_valores es obligatorio")),
      Cand(~VI /\ ~IsBlank(d.identificacion_valores),
           E("identificacion_valores debe estar en blanco")),
      Cand(VI /\ d.clave_repr_valores \notin {<<"A">>, <<"B">>},
           E("clave_repr_valores debe ser 'A' o 'B'")),
      Cand(bien = "B" /\ ~IsBlank(d.identificacion_entidad),
           E("identificacion_entidad debe estar en blanco")),
      Cand(bien = "B" /\ ~IsBlank(d.nif_entidad_pais_residencia),
           E("nif_entidad_pais_residencia debe estar en blanco")) >>

\* the detail rules of modelo720.py _validate_business_rules, which check the
\* subclave of clave 'I' only
validate_detail_rules_legacy(d, r) ==
    FirstFailed(<<detail_rule_checks(d, r)[1], detail_rule_checks(d, r)[7],
                  detail_rule_checks(d, r)[8], detail_rule_checks(d, r)[9]>>)

\* the sequence s without its i-th element
Without(s, i) == SubSeq(s, 1, i - 1) \o SubSeq(s, i + 1, Len(s))

\* detail rules that stop at "'U', 'R', o en blanco" for clave 'B': a blank
\* clave_tipo_bien_inmueble passes
validate_detail_rules_blank_inmueble(d, r) ==
    FirstFailed(Without(detail_rule_checks(d, r), 10))

\* detail rules that never ask for fecha_extincion
validate_detail_rules_no_extincion(d, r) ==
    FirstFailed(Without(detail_rule_checks(d, r), 7))

\* Detalle720.validate_detail_rules: every check is a raise
validate_detail_rules(d, r) == FirstFailed(detail_rule_checks(d, r))

\* the validation of Detalle720 data: its errors
Detalle720_errors(d, r) == OrElse(Detalle720_field_errors(d, r), validate_detail_rules(d, r))

\* Detalle720(**fields): the validators return the NIFs upper-cased and stripped
Detalle720_new(d, r) ==
    Constructed(Detalle720_errors(d, r),
                [d EXCEPT !.nif_declarante = Strip(StrUpper(@)),
                          !.nif_declarado = Strip(StrUpper(@)),
                          !.nif_representante = Strip(StrUpper(@))])

\* sum((d[name].importe for d in detalles), Decimal("0"))
RECURSIVE SumImporte(_, _)
SumImporte(detalles, name) ==
    IF detalles = <<>> THEN 0
    ELSE detalles[1][name].importe + SumImporte(Tail(detalles), name)

\* the problems list of modelo720.py _validate_structure, which reconciles the
\* count and the first aggregate only
business_problems_legacy(d) ==
    LET h == d.header
        sum1 == SumImporte(d.detalles, "valoracion_1")
    IN Failed(<<
      Cand(h.numero_total_registros # Len(d.detalles),
           Err(-1, "__model__", "Numero total de registros no concuerda con el numero de detalles")),
      Cand(Abs(sum1 - h.suma_valoracion_1.importe) > 0,
           Err(-1, "__model__", "SUMA VALORACION 1 no concuerda")) >>)

\* the problems list of Declaration.validate_business_rules
business_problems(d) ==
    LET h == d.header
        sum1 == SumImporte(d.detalles, "valoracion_1")
        sum2 == SumImporte(d.detalles, "valoracion_2")
    IN Failed(<<
      Cand(h.numero_total_registros # Len(d.detalles),
           Err(-1, "__model__", "Numero total de registros no concuerda con el numero de detalles")),
      Cand(Abs(sum1 - h.suma_valoracion_1.importe) > 0,
           Err(-1, "__model__", "SUMA VALORACION 1 no concuerda")),
      Cand(Abs(sum2 - h.suma_valoracion_2.importe) > 0,
           Err(-1, "__model__", "SUMA VALORACION 2 no concuerda")) >>)

\* Declaration.validate_business_rules
validate_business_rules(d) == business_problems(d)

\* the errors of the detail records i.. of a declaration
RECURSIVE DetallesErrors(_, _)
DetallesErrors(detalles, i) ==
    IF i > Len(detalles) THEN <<>>
    ELSE Detalle720_errors(detalles[i], i) \o DetallesErrors(detalles, i + 1)

\* Declaration.model_validate(dump): the errors pydantic reports
Declaration_errors(d) ==
    OrElse(Header720_errors(d.header, 0) \o DetallesErrors(d.detalles, 1),
           validate_business_rules(d))

\* the outcome of Declaration.validate for the errors of the re-validation
validate_outcome(errs) ==
    IF errs = <<>> THEN [kind |-> "None"]
    ELSE [kind |-> "DeclarationValidationError", errors |-> errs]

\* Declaration.validate
validate(d) == validate_outcome(Declaration_errors(d))

\* Declaration.model_validate(data): the new instance, its NIFs as the field
\* validators return them, or ValidationError
model_validate(d) ==
    Constructed(Declaration_errors(d),
        [header |-> [d.header EXCEPT !.nif_declarante = Strip(StrUpper(@))],
         detalles |-> [k \in 1..Len(d.detalles) |->
                         [d.detalles[k] EXCEPT !.nif_declarante = Strip(StrUpper(@)),
                                               !.nif_declarado = Strip(StrUpper(@)),
                                               !.nif_representante = Strip(StrUpper(@))]]])

\* a validate() that keeps the validated instance's fields in self
validate_self_adopting(self, validated) == IF validated.ok THEN validated.v ELSE self

\* self after Declaration.validate: model_dump() builds fresh dicts and the
\* instance model_validate returns is dropped
validate_self(self, validated) == self

(***************************************************************************)
(* CSV side.  A CSV file is the sequence of rows handed to csv.writer, and *)
(* csv.reader returns the same rows.  A cell is a str; the cells the code  *)
(* writes as literals (section markers, field names) are kept as one token.*)
(***************************************************************************)
Lit(name) == <<name>>

SECTION_HEADER == <<Lit("__SECTION__"), Lit("HEADER")>>

SECTION_DETALLES == <<Lit("__SECTION__"), Lit("DETALLES")>>

FIELD_VALUE == <<Lit("field"), Lit("value")>>

\* [f.name for f in DETALLE_FIELDS if f.csv_include]
expected_columns == [i \in 1..Len(DETALLE_FIELDS) |-> Lit(DETALLE_FIELDS[i].name)]

_get_header_field_value(header, field_spec) ==
    LET v == header[field_spec.name] IN
    CASE field_spec.transform \in {"bool_c", "bool_s"} -> IF v THEN <<"1">> ELSE <<"0">>
      [] field_spec.transform = "valoracion" -> DecimalToStr(v.importe)
      [] field_spec.transform = "int" -> IntToStr(v)
      [] OTHER -> IF v = NoneStr THEN <<>> ELSE v

_get_detalle_field_value(detalle, field_spec) ==
    LET v == detalle[field_spec.name] IN
    CASE field_spec.transform = "enum" -> IF v = "None" THEN <<>> ELSE <<v>>
      [] field_spec.transform = "date8" -> IF v = NoDate THEN <<>> ELSE isoformat(v)
      [] field_spec.transform = "valoracion" -> DecimalToStr(v.importe)
      [] field_spec.transform = "int" -> IntToStr(v)
      [] OTHER -> IF v = NoneStr THEN <<>> ELSE v

\* Parser.write_csv: the rows written
write_csv(declaration) ==
    <<SECTION_HEADER, FIELD_VALUE>>
    \o [i \in 1..Len(HEADER_FIELDS) |->
          <<Lit(HEADER_FIELDS[i].name),
            _get_header_field_value(declaration.header, HEADER_FIELDS[i])>>]
    \o <<SECTION_DETALLES, expected_columns>>
    \o [k \in 1..Len(declaration.detalles) |->
          [i \in 1..Len(DETALLE_FIELDS) |->
             _get_detalle_field_value(declaration.detalles[k], DETALLE_FIELDS[i])]]

\* int(s): an optional sign and digits, surrounding whitespace allowed
PyInt(s0) ==
    LET s    == Strip(s0)
        body == IF s # <<>> /\ s[1] \in {"+", "-"} THEN Tail(s) ELSE s
    IN IF ~IsDigits(body) THEN Raise("ValueError")
       ELSE Ok(IF s[1] = "-" THEN -DigitsToInt(body) ELSE DigitsToInt(body))

\* the index of the first row whose first two cells are marker (0: none)
FirstRow(rows, marker) ==
    IF \E i \in 1..Len(rows) : PySlice(rows[i], 1, 2) = marker
    THEN CHOOSE i \in 1..Len(rows) :
            /\ PySlice(rows[i], 1, 2) = marker
            /\ \A j \in 1..(i - 1) : PySlice(rows[j], 1, 2) # marker
    ELSE 0

\* hvals.get(name, default) for hvals = {k: v for k, v, *_ in header_table}
\* with the two setdefault calls applied: the last row of the key wins
HvalsGet(header_table, name, default) ==
    LET hits == {i \in 1..Len(header_table) : header_table[i][1] = Lit(name)} IN
    IF hits = {} THEN default
    ELSE header_table[CHOOSE i \in hits : \A j \in hits : j <= i][2]

\* `x or y` for strings
OrStr(x, y) == IF x = <<>> \/ x = NoneStr THEN y ELSE x

\* Valoracion(signo, abs(d).quantize(...)) for the outcome d of Decimal(s)
valoracion_of_decimal(d) ==
    IF ~d.ok THEN d
    ELSE Valoracion_positional(IF d.v < 0 THEN <<"N">> ELSE <<" ">>,
                               quantize_cents_down(Abs(d.v)))

\* the body shared by _parse_decimal_euros and _valor_field, s already stripped
parse_euros(s) ==
    IF s = <<>> THEN Valoracion_positional(<<" ">>, 0)
    ELSE valoracion_of_decimal(ParseDecimal(s))

\* _parse_csv_header._parse_decimal_euros
_parse_decimal_euros(s0) == parse_euros(Strip(OrStr(s0, <<>>)))

\* _parse_csv_header._str_to_bool
_str_to_bool(s0) ==
    LET s == StrLower(Strip(OrStr(s0, <<>>))) IN
    s \in {<<"1">>, <<"t", "r", "u", "e">>, <<"t">>, <<"y", "e", "s">>, <<"y">>,
           <<"s", "i">>}

\* the statements of _parse_csv_header after its local values are computed
csv_header_args(ht, ejercicio, numero_total_registros, suma_val1, suma_val2, tipo_registro) ==
    IF ~ejercicio.ok THEN Raise("CSV720Error")
    ELSE IF ~numero_total_registros.ok THEN numero_total_registros
    ELSE IF ~suma_val1.ok THEN suma_val1
    ELSE IF ~suma_val2.ok THEN suma_val2
    ELSE IF ~tipo_registro.ok THEN tipo_registro
    ELSE Header720_new(
          [tipo_registro |-> tipo_registro.v,
           modelo |-> HvalsGet(ht, "modelo", MODEL_CODE),
           ejercicio |-> ejercicio.v,
           nif_declarante |-> OrStr(HvalsGet(ht, "nif_declarante", NoneStr), <<>>),
           nombre_razon |-> OrStr(HvalsGet(ht, "nombre_razon", NoneStr), <<>>),
           tipo_soporte |-> OrStr(HvalsGet(ht, "tipo_soporte", NoneStr), <<" ">>),
           telefono_contacto |-> OrStr(HvalsGet(ht, "telefono_contacto", NoneStr), NoneStr),
           persona_contacto |-> OrStr(HvalsGet(ht, "persona_contacto", NoneStr), NoneStr),
           numero_identificativo |->
               OrStr(HvalsGet(ht, "numero_identificativo", NoneStr), <<>>),
           declaracion_complementaria |->
               _str_to_bool(HvalsGet(ht, "declaracion_complementaria", <<>>)),
           declaracion_sustitutiva |->
               _str_to_bool(HvalsGet(ht, "declaracion_sustitutiva", <<>>)),
           numero_identificativo_anterior |->
               OrStr(HvalsGet(ht, "numero_identificativo_anterior", NoneStr), NoneStr),
           numero_total_registros |-> numero_total_registros.v,
           suma_valoracion_1 |-> suma_val1.v,
           suma_valoracion_2 |-> suma_val2.v], 0)

\* Parser._parse_csv_header
_parse_csv_header(ht) ==
    csv_header_args(ht,
        PyInt(HvalsGet(ht, "ejercicio", <<"0">>)),
        PyInt(OrStr(HvalsGet(ht, "numero_total_registros", <<"0">>), <<"0">>)),
        _parse_decimal_euros(HvalsGet(ht, "suma_valoracion_1", <<"0">>)),
        _parse_decimal_euros(HvalsGet(ht, "suma_valoracion_2", <<"0">>)),
        PyInt(HvalsGet(ht, "tipo_registro", <<"1">>)))

\* vals.get(name) for vals = dict(zip(expected_columns, row)), then `or ""`
ValsGet(row, i) == IF i <= Len(row) THEN row[i] ELSE <<>>

\* try: ... except Exception: raise CSV720Error(...)
OrCsvError(r) == IF r.ok THEN r ELSE Raise("CSV720Error")

\* _parse_csv_detalle._req_int
_req_int(cell) == OrCsvError(PyInt(OrStr(Strip(OrStr(cell, <<"0">>)), <<"0">>)))

\* the body of _opt_date, s already stripped
opt_date_of(s) == IF s = <<>> THEN Ok(NoDate) ELSE OrCsvError(fromisoformat(s))

\* _parse_csv_detalle._opt_date
_opt_date(cell) == opt_date_of(Strip(cell))

\* _parse_csv_detalle._str_field
_str_field(cell, field_spec) ==
    LET s == Strip(cell)
        maxlen == field_spec.end - field_spec.start + 1
    IN IF Len(s) > maxlen THEN Raise("CSV720Error") ELSE Ok(s)

\* _parse_csv_detalle._enum_field
_enum_field(cell, enum_class) ==
    LET s == Strip(cell) IN
    IF s = <<>> THEN Raise("CSV720Error")
    ELSE IF Len(s) = 1 /\ s[1] \in EnumMembers(enum_class) THEN Ok(s[1])
    ELSE Raise("CSV720Error")

\* _parse_csv_detalle._valor_field
_valor_field(cell) == parse_euros(Strip(cell))

\* the argument of Detalle720(...) for the i-th field
CsvDetalleField(row, i) ==
    LET fs   == DETALLE_FIELDS[i]
        cell == ValsGet(row, i)
    IN CASE fs.transform = "int" -> _req_int(cell)
         [] fs.transform = "str" -> _str_field(cell, fs)
         [] fs.transform = "enum" -> _enum_field(cell, fs.enum_class)
         [] fs.transform = "date8" -> _opt_date(cell)
         [] fs.transform = "valoracion" -> _valor_field(cell)

\* the first index of parsed whose outcome is an exception (0: none)
FirstRaised(parsed) == MinOrZero({k \in 1..Len(parsed) : ~parsed[k].ok})

\* Detalle720(...) of _parse_csv_detalle for the outcomes args of its arguments,
\* bad the first that raises
csv_detalle_args(args, bad, ridx) ==
    IF bad # 0 THEN args[bad]
    ELSE Detalle720_new(
           [nm \in FieldNames(DETALLE_FIELDS) |->
              args[CHOOSE k \in 1..Len(DETALLE_FIELDS) : DETALLE_FIELDS[k].name = nm].v],
           ridx)

\* the outcomes of the arguments of Detalle720(...) in _parse_csv_detalle
CsvDetalleArgs(row) == [i \in 1..Len(DETALLE_FIELDS) |-> CsvDetalleField(row, i)]

\* Parser._parse_csv_detalle: the arguments are evaluated in order, then
\* Detalle720(...) validates them
_parse_csv_detalle(row, ridx) ==
    csv_detalle_args(CsvDetalleArgs(row), FirstRaised(CsvDetalleArgs(row)), ridx)

\* Declaration(header, detalles): BaseModel.__init__ takes keyword arguments only
Declaration_positional(header, detalles) == Raise("TypeError")

\* `not any((c or '').strip() for c in row)`
IsBlankRow(row) == \A i \in 1..Len(row) : Strip(row[i]) = <<>>

\* the outcomes of _parse_csv_detalle for the non-blank rows of det_rows
ParsedDetalles(det_rows) ==
    LET keep == SelectSeq([i \in 1..Len(det_rows) |-> i],
                          LAMBDA i : ~IsBlankRow(det_rows[i]))
    IN [k \in 1..Len(keep) |-> _parse_csv_detalle(det_rows[keep[k]], keep[k])]

\* the outcome of a call of the parser for the outcome r of its last step
Raised(r) ==
    IF r.ok THEN [kind |-> "Declaration", value |-> r.v]
    ELSE IF r.exc = "ParserFormatError"
    THEN [kind |-> "ParserFormatError", field |-> r.field]
    ELSE [kind |-> r.exc]

\* read_csv: dec = Declaration(header, detalles); dec.validate(); return dec
read_csv_return(built) ==
    IF ~built.ok THEN Raised(built)
    ELSE IF validate(built.v).kind # "None" THEN [kind |-> "CSV720Error"]
    ELSE Raised(built)

\* read_csv: the loop over det_rows, parsed the outcomes of its rows and bad the
\* first that raises
read_csv_rows(header, parsed, bad) ==
    IF bad # 0 THEN Raised(parsed[bad])
    ELSE read_csv_return(
           Declaration_positional(header.v, [k \in 1..Len(parsed) |-> parsed[k].v]))

\* read_csv from header = self._parse_csv_header(hvals) on
read_csv_detalles(rows, ds, header) ==
    IF ~header.ok THEN Raised(header)
    ELSE IF ds + 1 > Len(rows) THEN [kind |-> "IndexError"]
    ELSE IF rows[ds + 1] # expected_columns THEN [kind |-> "CSV720Error"]
    ELSE read_csv_rows(header, ParsedDetalles(SubSeq(rows, ds + 2, Len(rows))),
                       FirstRaised(ParsedDetalles(SubSeq(rows, ds + 2, Len(rows)))))

\* read_csv from hvals = {k: v for k, v, *_ in header_table} on
read_csv_hvals(rows, ds, header_table) ==
    IF \E i \in 1..Len(header_table) : Len(header_table[i]) < 2
    THEN [kind |-> "ValueError"]
    ELSE read_csv_detalles(rows, ds, _parse_csv_header(header_table))

\* read_csv from header_table = rows[header_start:detalles_start-1] on
read_csv_table(rows, ds, table0) ==
    IF table0 = <<>> THEN [kind |-> "CSV720Error"]
    ELSE read_csv_hvals(rows, ds,
           IF PySlice(table0[1], 1, 2) = FIELD_VALUE THEN Tail(table0) ELSE table0)

\* read_csv once the two section markers are looked up (0: not found)
read_csv_sections(rows, hs, ds) ==
    IF hs = 0 \/ ds = 0 THEN [kind |-> "CSV720Error"]
    ELSE read_csv_table(rows, ds,
           IF hs + 1 > ds - 1 THEN <<>> ELSE SubSeq(rows, hs + 1, ds - 1))

\* Parser.read_csv: what it returns or raises for the rows of the file
read_csv(rows) ==
    read_csv_sections(rows, FirstRow(rows, SECTION_HEADER),
                      FirstRow(rows, SECTION_DETALLES))

(***************************************************************************)
(* Fixed-width file reader and writer.                                     *)
(***************************************************************************)
\* Parser.write_fixed_width: the strings f.write receives
write_fixed_width(declaration) ==
    <<_format_header_line(declaration.header) \o <<"\n">>>>
    \o [k \in 1..Len(declaration.detalles) |->
          _format_detalle_line(declaration.detalles[k]) \o <<"\n">>]

\* Parser._iter_lines: ln.rstrip("\n\r") for each line of the file
_iter_lines(file) == [i \in 1..Len(file) |-> RstripChars(file[i], {"\n", "\r"})]

\* return Header720(**fields), unless _parse_line raised
header_of_fields(fields) == IF fields.ok THEN Header720_new(fields.v, 0) ELSE fields

\* Parser._parse_header
_parse_header(line) == header_of_fields(_parse_line(line, HEADER_FIELDS))

\* return Detalle720(**fields), unless _parse_line raised
detalle_of_fields(fields, idx) == IF fields.ok THEN Detalle720_new(fields.v, idx) ELSE fields

\* Parser._parse_detalle, for the idx-th detail line
_parse_detalle(line, idx) == detalle_of_fields(_parse_line(line, DETALLE_FIELDS), idx)

\* the detalles comprehension of read_fixed_width and its return statement
read_detalles(header, parsed, bad) ==
    IF bad # 0 THEN Raised(parsed[bad])
    ELSE Raised(Declaration_positional(header.v, [k \in 1..Len(parsed) |-> parsed[k].v]))

\* read_fixed_width after header = self._parse_header(lines[0])
read_header(lines, header) ==
    IF ~header.ok THEN Raised(header)
    ELSE read_detalles(header,
                       [k \in 1..(Len(lines) - 1) |-> _parse_detalle(lines[k + 1], k)],
                       FirstRaised([k \in 1..(Len(lines) - 1) |->
                                      _parse_detalle(lines[k + 1], k)]))

\* Parser.read_fixed_width once the non-blank lines are listed
read_lines(lines) ==
    IF lines = <<>> THEN [kind |-> "IndexError"]
    ELSE read_header(lines, _parse_header(lines[1]))

\* Parser.read_fixed_width: what it returns or raises for the file
read_fixed_width(file) ==
    read_lines(SelectSeq(_iter_lines(file), LAMBDA ln : Strip(ln) # <<>>))

(***************************************************************************)
(* The objects a caller builds with the keyword constructors, as the tests *)
(* do (tests/test_declaration.py setUp, tests/test_models.py).             *)
(***************************************************************************)
MaxDetalles == 2

MaxAssign == 2

MaxNifPad == 1

S_NIF == <<"Y", "9", "1", "2", "7", "5", "2", "7", "Z">>

S_DNI == <<"1", "2", "3", "4", "5", "6", "7", "8", "Z">>

S_DNI_BAD == <<"1", "2", "3", "4", "5", "6", "7", "8", "A">>

S_NAME == <<"T", "E", "S", "T", " ", "U", "S", "E", "R">>

S_NUMID == <<"7", "2", "0", "1", "2", "3", "4", "5", "6", "7", "8", "9", "0">>

S_PHONE == <<"9", "1", "2", "3", "4", "5", "6", "7", "8">>

S_ISIN == <<"U", "S", "0", "3", "7", "8", "3", "3", "1", "0", "0", "5">>

S_US == <<"U", "S">>

\* Decimal("n.cc") for a number of cents
Cents(c) == c * 10

\* Detalle720(...) of tests/test_declaration.py: a bank account
BaseDetalle ==
    [tipo_registro |-> 2, modelo |-> MODEL_CODE, ejercicio |-> 2024,
     nif_declarante |-> S_NIF, nif_declarado |-> S_NIF, nif_representante |-> <<>>,
     nombre_razon_declarado |-> S_NAME, clave_condicion |-> 1,
     tipo_titularidad_texto |-> <<>>, clave_tipo_bien |-> "C", subclave |-> 1,
     tipo_derecho_real_inmueble |-> <<>>, codigo_pais |-> S_US,
     clave_identificacion |-> 0, identificacion_valores |-> <<>>,
     clave_ident_cuenta |-> <<"I">>, codigo_bic |-> <<>>, codigo_cuenta |-> <<>>,
     identificacion_entidad |-> <<>>, nif_entidad_pais_residencia |-> <<>>,
     domicilio_via_num |-> <<>>, domicilio_complemento |-> <<>>,
     domicilio_poblacion |-> <<>>, domicilio_region |-> <<>>, domicilio_cp |-> <<>>,
     domicilio_pais |-> S_US, fecha_incorporacion |-> [y |-> 2024, m |-> 1, d |-> 1],
     origen |-> "A", fecha_extincion |-> NoDate,
     valoracion_1 |-> Valoracion(<<" ">>, Cents(100000)),
     valoracion_2 |-> Valoracion(<<" ">>, Cents(0)),
     clave_repr_valores |-> <<>>, numero_valores_entera |-> 0,
     numero_valores_decimal |-> 0, clave_tipo_bien_inmueble |-> <<>>,
     porcentaje_participacion_entera |-> 100, porcentaje_participacion_decimal |-> 0]

\* the same account with a negative balance, sign and magnitude kept apart
DetalleNegativo ==
    [BaseDetalle EXCEPT !.valoracion_1 = Valoracion(<<"N">>, Cents(25000))]

\* securities (tests/test_models.py test_detalle_clave_identificacion_for_V),
\* with a negative amount held as a negative Decimal
DetalleValores ==
    [BaseDetalle EXCEPT !.clave_tipo_bien = "V", !.clave_identificacion = 1,
                        !.identificacion_valores = S_ISIN, !.clave_ident_cuenta = <<>>,
                        !.clave_repr_valores = <<"A">>, !.numero_valores_entera = 10,
                        !.valoracion_1 = Valoracion(<<"N">>, -Cents(25000))]

\* an account whose integer fields hold large numbers
DetalleGrande ==
    [BaseDetalle EXCEPT !.ejercicio = 1000000000,
                        !.numero_valores_decimal = 1000000000,
                        !.porcentaje_participacion_entera = 1000000000]

DetalleTemplates == {BaseDetalle, DetalleNegativo, DetalleValores, DetalleGrande}

\* Header720(...) of tests/test_declaration.py, its count and sums those of detalles
BaseHeader(detalles) ==
    LET s1 == SumImporte(detalles, "valoracion_1")
        s2 == SumImporte(detalles, "valoracion_2")
    IN [tipo_registro |-> 1, modelo |-> MODEL_CODE, ejercicio |-> 2024,
        nif_declarante |-> S_NIF, nombre_razon |-> S_NAME, tipo_soporte |-> <<"T">>,
        telefono_contacto |-> NoneStr, persona_contacto |-> NoneStr,
        numero_identificativo |-> S_NUMID,
        declaracion_complementaria |-> FALSE, declaracion_sustitutiva |-> FALSE,
        numero_identificativo_anterior |-> NoneStr,
        numero_total_registros |-> Len(detalles),
        suma_valoracion_1 |-> Valoracion(IF s1 < 0 THEN <<"N">> ELSE <<" ">>, s1),
        suma_valoracion_2 |-> Valoracion(IF s2 < 0 THEN <<"N">> ELSE <<" ">>, s2)]

\* Declaration(header=..., detalles=[...])
Declaration(header, detalles) == [header |-> header, detalles |-> detalles]

SeqsUpTo(S, n) == UNION {[1..k -> S] : k \in 0..n}

InitDeclarations ==
    {Declaration(BaseHeader(ds), ds) : ds \in SeqsUpTo(DetalleTemplates, MaxDetalles)}

NoFile == <<NoneStr>>

NoCall == [op |-> "none"]

(***************************************************************************)
(* Operations.                                                             *)
(***************************************************************************)
\* the values the caller assigns to a header attribute
HeaderValues(f) ==
    CASE f = "ejercicio" -> {12345}
      [] f = "telefono_contacto" -> {S_PHONE, <<>>}
      [] f = "numero_total_registros" -> {3}
      [] f = "suma_valoracion_1" ->
           {Valoracion(<<" ">>, Cents(75000)), Valoracion(<<" ">>, Cents(125000)),
            Valoracion(<<" ">>, Cents(100001))}
      [] f = "suma_valoracion_2" -> {Valoracion(<<" ">>, Cents(1))}
      [] f = "nif_declarante" -> {S_DNI_BAD}
      [] f = "tipo_soporte" -> {<<"X">>}

HeaderAssignable ==
    {"ejercicio", "telefono_contacto", "numero_total_registros", "suma_valoracion_1",
     "suma_valoracion_2", "nif_declarante", "tipo_soporte"}

\* the values the caller assigns to a detail attribute
DetalleValues(f) ==
    CASE f = "valoracion_1" -> {Valoracion(<<"N">>, Cents(25000)), Valoracion(<<" ">>, 5)}
      [] f = "clave_tipo_bien" -> {"I"}
      [] f = "origen" -> {"C"}
      [] f = "subclave" -> {0, 6}
      [] f = "nif_declarado" -> {S_DNI_BAD, S_DNI, StrLower(S_DNI)}
      [] f = "nombre_razon_declarado" -> {<<" ">> \o S_NAME}

DetalleAssignable ==
    {"valoracion_1", "clave_tipo_bien", "origen", "subclave", "nif_declarado",
     "nombre_razon_declarado"}

Untouched == fwfile = NoFile /\ csvfile = NoFile /\ ret = NoCall

\* header.<f> = v  (tests/test_declaration.py: pydantic does not validate it)
AssignHeader ==
    /\ Untouched /\ nassign < MaxAssign
    /\ \E f \in HeaderAssignable : \E v \in HeaderValues(f) :
          /\ dec.header[f] # v
          /\ dec' = [dec EXCEPT !.header[f] = v]
    /\ nassign' = nassign + 1
    /\ UNCHANGED <<fwfile, csvfile, ret, nif, nifres>>

\* detalle.<f> = v
AssignDetalle ==
    /\ Untouched /\ nassign < MaxAssign
    /\ \E i \in 1..Len(dec.detalles) : \E f \in DetalleAssignable :
         \E v \in DetalleValues(f) :
          /\ dec.detalles[i][f] # v
          /\ dec' = [dec EXCEPT !.detalles[i][f] = v]
    /\ nassign' = nassign + 1
    /\ UNCHANGED <<fwfile, csvfile, ret, nif, nifres>>

\* dec.validate()
Validate ==
    /\ ret' = [op |-> "validate", out |-> validate(dec)]
    /\ dec' = validate_self(dec, model_validate(dec))
    /\ UNCHANGED <<nassign, fwfile, csvfile, nif, nifres>>

\* parser.write_fixed_width(dec, path)
WriteFixedWidth ==
    /\ fwfile' = write_fixed_width(dec)
    /\ ret' = [op |-> "write_fixed_width", out |-> [kind |-> "None"]]
    /\ UNCHANGED <<dec, nassign, csvfile, nif, nifres>>

\* parser.read_fixed_width(path)
ReadFixedWidth ==
    /\ fwfile # NoFile
    /\ ret' = [op |-> "read_fixed_width", out |-> read_fixed_width(fwfile)]
    /\ UNCHANGED <<dec, nassign, fwfile, csvfile, nif, nifres>>

\* parser.write_csv(dec, path)
WriteCsv ==
    /\ csvfile' = write_csv(dec)
    /\ ret' = [op |-> "write_csv", out |-> [kind |-> "None"]]
    /\ UNCHANGED <<dec, nassign, fwfile, nif, nifres>>

\* parser.read_csv(path)
ReadCsv ==
    /\ csvfile # NoFile
    /\ ret' = [op |-> "read_csv", out |-> read_csv(csvfile)]
    /\ UNCHANGED <<dec, nassign, fwfile, csvfile, nif, nifres>>

\* the CSV file as written is edited in another program: a row is deleted, the
\* DETALLES section is moved in front of the HEADER section, or the first cell
\* of the detail column-header row is deleted
EditCsv ==
    /\ csvfile # NoFile
    /\ csvfile = write_csv(dec)
    /\ \/ \E i \in 1..Len(csvfile) :
            csvfile' = SubSeq(csvfile, 1, i - 1) \o SubSeq(csvfile, i + 1, Len(csvfile))
       \/ \E ds \in {FirstRow(csvfile, SECTION_DETALLES)} :
            csvfile' = SubSeq(csvfile, ds, Len(csvfile)) \o SubSeq(csvfile, 1, ds - 1)
       \/ \E ds \in {FirstRow(csvfile, SECTION_DETALLES)} :
            csvfile' = [csvfile EXCEPT ![ds + 1] = Tail(@)]
    /\ ret' = [op |-> "edit"]
    /\ UNCHANGED <<dec, nassign, fwfile, nif, nifres>>

\* main.py from `if dec == dec2` on
main_compare(dec1, csv, r3) ==
    IF r3.kind # "Declaration" THEN [out |-> r3, csv |-> csv]
    ELSE [out |-> [kind |-> IF dec1 = r3.value THEN "equal" ELSE "differ"], csv |-> csv]

\* main.py from parser.write_fixed_width(dec2, ...) on
main_rewrite(dec1, csv, r2) ==
    IF r2.kind # "Declaration" THEN [out |-> r2, csv |-> csv]
    ELSE main_compare(dec1, csv, read_fixed_width(write_fixed_width(r2.value)))

\* main.py from parser.write_csv(dec, "output.csv") on
main_convert(dec1, csv) == main_rewrite(dec1, csv, read_csv(csv))

\* main.py after dec = parser.read_fixed_width(...)
main_read(r1, csv0) ==
    IF r1.kind # "Declaration" THEN [out |-> r1, csv |-> csv0]
    ELSE main_convert(r1.value, write_csv(r1.value))

\* main.py: what the script prints or the exception that ends it, and the
\* CSV file it has written by then
main_script(file, csv0) == main_read(read_fixed_width(file), csv0)

MainScript ==
    /\ fwfile # NoFile
    /\ \E m \in {main_script(fwfile, csvfile)} :
         /\ ret' = [op |-> "main", out |-> m.out]
         /\ csvfile' = m.csv
    /\ UNCHANGED <<dec, nassign, fwfile, nif, nifres>>

\* the columns and the characters another program overwrites in a written file
EditCols == {5, 102, 103, 144, 162, 419, 423, 446, 472}

EditChars == {"X", "9"}

\* the file as written is edited in place: one or two columns of one line
CorruptFixedWidth ==
    /\ fwfile # NoFile
    /\ fwfile = write_fixed_width(dec)
    /\ \E i \in 1..Len(fwfile) : \E c1 \in EditCols : \E c2 \in EditCols :
         \E ch \in EditChars :
          fwfile' = [fwfile EXCEPT ![i] = [[@ EXCEPT ![c1] = ch] EXCEPT ![c2] = ch]]
    /\ ret' = [op |-> "edit"]
    /\ UNCHANGED <<dec, nassign, csvfile, nif, nifres>>

Init ==
    /\ dec \in InitDeclarations
    /\ nassign = 0
    /\ fwfile = NoFile
    /\ csvfile = NoFile
    /\ ret = NoCall
    /\ nif = <<>>
    /\ nifres = "unset"

\* the objects and the fixed-width side
Next ==
    \/ AssignHeader
    \/ AssignDetalle
    \/ WriteFixedWidth
    \/ ReadFixedWidth
    \/ MainScript

Spec == Init /\ [][Next]_vars

\* a written fixed-width file, edited or not, and its reader
NextFile ==
    \/ WriteFixedWidth
    \/ CorruptFixedWidth
    \/ ReadFixedWidth

SpecFile == Init /\ [][NextFile]_vars

\* the objects and the CSV side
NextCsv ==
    \/ AssignHeader
    \/ AssignDetalle
    \/ WriteCsv
    \/ ReadCsv

SpecCsv == Init /\ [][NextCsv]_vars

\* a written CSV file, edited or not, and its reader
NextCsvFile ==
    \/ WriteCsv
    \/ EditCsv
    \/ ReadCsv

SpecCsvFile == Init /\ [][NextCsvFile]_vars

\* the objects and validate() alone
NextValidate ==
    \/ AssignHeader
    \/ AssignDetalle
    \/ Validate

SpecValidate == Init /\ [][NextValidate]_vars

\* the objects and the calls that take a Declaration and return none
NextFrame ==
    \/ AssignHeader
    \/ AssignDetalle
    \/ Validate
    \/ WriteFixedWidth
    \/ WriteCsv

SpecFrame == Init /\ [][NextFrame]_vars

(***************************************************************************)
(* The record constructors on their own: Header720(...) and Detalle720(...) *)
(* called with keyword arguments, as tests/test_models.py does, and        *)
(* validate() of the Declaration that holds the same record.               *)
(***************************************************************************)
MaxIdLen == 14

MaxSubclave == 6

\* identifiers of 12..MaxIdLen characters and the empty one: digits after a
\* prefix, the last character a letter or not
IdInputs ==
    {<<>>} \cup
    {pre \o Repeat("1", n - 4) \o <<last>> :
        pre \in {<<"7", "2", "0">>, <<"7", "3", "0">>}, n \in 12..MaxIdLen,
        last \in {"9", "A"}}

\* Header720(...) of tests/test_models.py with the fields under test set
HeaderInputs ==
    {[BaseHeader(<<>>) EXCEPT !.declaracion_complementaria = c,
                              !.declaracion_sustitutiva = su,
                              !.numero_identificativo_anterior = ant,
                              !.numero_identificativo = id,
                              !.tipo_soporte = ts] :
        c \in BOOLEAN, su \in BOOLEAN, ant \in IdInputs \cup {NoneStr},
        id \in IdInputs, ts \in {<<"T">>, <<"X">>}}

\* create_valid_detalle(clave_tipo_bien, subclave) of tests/test_models.py with
\* the fields under test set
DetalleInputs ==
    {[BaseDetalle EXCEPT !.clave_tipo_bien = bien, !.subclave = sub,
                         !.clave_identificacion = ci, !.identificacion_valores = iv,
                         !.clave_repr_valores = crv, !.numero_valores_entera = nv,
                         !.numero_valores_decimal = nv, !.clave_condicion = cc,
                         !.clave_ident_cuenta = IF bien = "C" THEN <<"I">> ELSE <<>>,
                         !.clave_tipo_bien_inmueble = IF bien = "B" THEN <<"U">> ELSE <<>>,
                         !.tipo_derecho_real_inmueble = IF bien = "B" THEN S_NAME ELSE <<>>] :
        bien \in ClaveBien, sub \in 0..MaxSubclave, ci \in {0, 1},
        iv \in {<<>>, S_ISIN}, crv \in {<<>>, <<"A">>}, nv \in {0, 10}, cc \in {1, 0}}

\* create_valid_detalle(clave_tipo_bien, subclave) completed to a record that
\* passes for V and I too, with clave_tipo_bien_inmueble, origen and
\* fecha_extincion set (tests/test_models.py
\* test_detalle_real_estate_requires_tipo,
\* test_detalle_origen_C_requires_fecha_extincion)
DetalleFlagInputs ==
    {[BaseDetalle EXCEPT !.clave_tipo_bien = bien, !.subclave = sub,
                         !.clave_identificacion = IF bien \in {"V", "I"} THEN 1 ELSE 0,
                         !.identificacion_valores = IF bien \in {"V", "I"} THEN S_ISIN ELSE <<>>,
                         !.clave_repr_valores = IF bien \in {"V", "I"} THEN <<"A">> ELSE <<>>,
                         !.clave_ident_cuenta = IF bien = "C" THEN <<"I">> ELSE <<>>,
                         !.clave_tipo_bien_inmueble = flag,
                         !.origen = o, !.fecha_extincion = fe] :
        bien \in ClaveBien, sub \in {0, 1},
        flag \in {<<>>, <<" ">>, <<"U">>, <<"R">>, <<"X">>, <<"u">>},
        o \in Origen, fe \in {NoDate, [y |-> 2024, m |-> 12, d |-> 31]}}

\* the strings a national-ID field is given: absent, blank, valid, valid in
\* lower case, with a wrong control letter, one character too long
NifFieldInputs ==
    {<<>>, <<" ">>, S_NIF, S_DNI, StrLower(S_DNI), S_DNI_BAD, S_DNI \o <<"Z">>}

\* Header720(...) of tests/test_models.py test_header_invalid_nif with
\* nif_declarante set
HeaderNifInputs ==
    {[BaseHeader(<<>>) EXCEPT !.nif_declarante = n, !.tipo_soporte = ts] :
        n \in NifFieldInputs, ts \in {<<"T">>, <<"X">>}}

\* create_valid_detalle() with its three national-ID fields set
DetalleNifInputs ==
    {[BaseDetalle EXCEPT !.nif_declarante = n1, !.nif_declarado = n2,
                         !.nif_representante = n3] :
        n1 \in NifFieldInputs, n2 \in NifFieldInputs, n3 \in NifFieldInputs}

\* what a constructor call returns or raises, for the outcome r of the model
new_outcome(class, r) ==
    IF r.ok THEN [kind |-> class, value |-> r.v]
    ELSE [kind |-> "ValidationError", errors |-> r.errors]

\* Header720(**fields)
NewHeader ==
    /\ ret' = [op |-> "Header720",
               out |-> new_outcome("Header720", Header720_new(dec.header, 0))]
    /\ UNCHANGED <<dec, nassign, fwfile, csvfile, nif, nifres>>

\* Detalle720(**fields)
NewDetalle ==
    /\ dec.detalles # <<>>
    /\ ret' = [op |-> "Detalle720",
               out |-> new_outcome("Detalle720", Detalle720_new(dec.detalles[1], 1))]
    /\ UNCHANGED <<dec, nassign, fwfile, csvfile, nif, nifres>>

InitHeader ==
    /\ dec \in {Declaration(h, <<>>) : h \in HeaderInputs \cup HeaderNifInputs}
    /\ nassign = 0
    /\ fwfile = NoFile
    /\ csvfile = NoFile
    /\ ret = NoCall
    /\ nif = <<>>
    /\ nifres = "unset"

NextHeader ==
    \/ NewHeader
    \/ Validate

SpecHeader == InitHeader /\ [][NextHeader]_vars

InitDetalle ==
    /\ dec \in {Declaration(BaseHeader(<<d>>), <<d>>) :
                   d \in DetalleInputs \cup DetalleFlagInputs \cup DetalleNifInputs}
    /\ nassign = 0
    /\ fwfile = NoFile
    /\ csvfile = NoFile
    /\ ret = NoCall
    /\ nif = <<>>
    /\ nifres = "unset"

NextDetalle ==
    \/ NewDetalle
    \/ Validate

SpecDetalle == InitDetalle /\ [][NextDetalle]_vars

(***************************************************************************)
(* validar_nif on its own: the strings it is called with.                  *)
(***************************************************************************)
NifFirst == {"0", "1", "9", "X", "Y", "Z", "x", "K"}

NifMiddle ==
    {<<"2", "3", "4", "5", "6", "7", "8">>, <<"1", "2", "3", "4", "5", "6", "7">>,
     <<"0", "0", "0", "0", "0", "0", "0">>, <<"9", "1", "2", "7", "5", "2", "7">>,
     <<"2", "3", "4", "5", "6", "7">>, <<"2", "3", "4", " ", "6", "7", "8">>,
     <<"2", "3", "4", "a", "6", "7", "8">>}

NifLast == Range(UpperChars) \cup {"l", "z", "7", " "}

NifPads == {Repeat(" ", n) : n \in 0..MaxNifPad}

NifInputs ==
    {<<>>} \cup
    {l \o <<f>> \o m \o <<c>> \o r :
        l \in NifPads, f \in NifFirst, m \in NifMiddle, c \in NifLast, r \in NifPads}

InitNif ==
    /\ nif \in NifInputs
    /\ nifres = "unset"
    /\ dec = Declaration(BaseHeader(<<>>), <<>>)
    /\ nassign = 0
    /\ fwfile = NoFile
    /\ csvfile = NoFile
    /\ ret = NoCall

\* validar_nif(nif)
ValidarNif ==
    /\ nifres' = IF validar_nif(nif) THEN "True" ELSE "False"
    /\ UNCHANGED <<dec, nassign, fwfile, csvfile, ret, nif>>

NextNif == ValidarNif

SpecNif == InitNif /\ [][NextNif]_vars

(***************************************************************************)
(* validar_nif over bodies and control letters: every body with each of    *)
(* the 26 letters.                                                         *)
(***************************************************************************)
MaxBody == 45

\* 8-digit bodies 00000000..MaxBody and two of tests/test_nif_validation.py,
\* and the NIE bodies X, Y, Z followed by 7 digits
LetraBodies ==
    {Zfill(NatToStr(n), 8) : n \in (0..MaxBody) \cup {12345678, 99999999}}
    \cup {<<p>> \o Zfill(NatToStr(n), 7) :
             p \in {"X", "Y", "Z"}, n \in (0..MaxBody) \cup {9127527, 9999999}}

InitLetra ==
    /\ nif \in {body \o <<c>> : body \in LetraBodies, c \in Range(UpperChars)}
    /\ nifres = "unset"
    /\ dec = Declaration(BaseHeader(<<>>), <<>>)
    /\ nassign = 0
    /\ fwfile = NoFile
    /\ csvfile = NoFile
    /\ ret = NoCall

NextLetra == ValidarNif

SpecLetra == InitLetra /\ [][NextLetra]_vars

(***************************************************************************)
(* A fixed-width file left without a non-blank line, and its reader.       *)
(***************************************************************************)
MaxBlankLines == 2

\* the file is emptied in another program: it keeps up to MaxBlankLines lines,
\* each empty or of spaces
BlankFixedWidth ==
    /\ fwfile # NoFile
    /\ \E n \in 0..MaxBlankLines : \E w \in {0, 3, LINE_LEN} :
         fwfile' = [i \in 1..n |-> Repeat(" ", w) \o <<"\n">>]
    /\ ret' = [op |-> "edit"]
    /\ UNCHANGED <<dec, nassign, csvfile, nif, nifres>>

NextBlankFile ==
    \/ WriteFixedWidth
    \/ BlankFixedWidth
    \/ ReadFixedWidth

SpecBlankFile == Init /\ [][NextBlankFile]_vars

(***************************************************************************)
(* The value codec on its own: Valoracion(...), _parse_field,              *)
(* _to_decimal_from_cents, and an amount encoded and decoded again, called *)
(* the way tests/test_models.py and tests/test_parser.py call them.        *)
(***************************************************************************)
\* the signo arguments: the two indicators, two other characters, '' and None
SignoInputs == {<<" ">>, <<"N">>, <<"X">>, <<"+">>, <<>>, NoneStr}

\* amounts in cents, from 0.00 to 999999.99
CentsInputs == {0, 1, 123456, 789000, 99999999}

\* FieldSpec("test_field", 1, 10, "str") and FieldSpec("clave_bien", 1, 1,
\* "enum", enum_class=ClaveBien) of tests/test_parser.py, with the required
\* flag at its default and switched off, and a three-column enum field
CodecFieldSpecs ==
    {FieldSpec("test_field", 1, 10, "str", req) : req \in BOOLEAN}
    \cup {[EnumFieldSpec("clave_bien", 1, w, "ClaveBien") EXCEPT !.required = req] :
             w \in {1, 3}, req \in BOOLEAN}
    \cup {[EnumFieldSpec("origen", 1, 1, "Origen") EXCEPT !.required = req] :
             req \in BOOLEAN}

\* the lines those fields are decoded from
CodecLines ==
    {<<>>, Repeat(" ", 10), Repeat(" ", 3),
     <<"H", "e", "l", "l", "o">> \o Repeat(" ", 5), <<"H", "e", "l", "l", "o">>,
     <<" ", "H", "i", " ", "x">> \o Repeat(" ", 5),
     <<"C">>, <<"C", " ", " ">>, <<" ", "C", " ">>, <<"A">>, <<"M">>, <<"X">>, <<"c">>,
     <<"C", "V", " ">>}

\* the cents_str arguments: digit strings of several widths, '', spaces, and
\* strings with a character that is no digit
CentsStrs ==
    {Zfill(NatToStr(n), w) : n \in CentsInputs, w \in {1, 14, 17}}
    \cup {<<>>, Repeat(" ", 3), Repeat(" ", 14),
          <<"1", "2", ".", "3", "4">>, <<"-", "1", "2">>, <<" ", "1", "2">>,
          <<"1", "2", " ">>, <<"1", "2", "a">>}

\* the two header sums and the two detail amounts
ValoracionFields ==
    {HEADER_FIELDS[i] : i \in {i \in 1..Len(HEADER_FIELDS) : HEADER_FIELDS[i].transform = "valoracion"}}
    \cup {DETALLE_FIELDS[i] : i \in {i \in 1..Len(DETALLE_FIELDS) : DETALLE_FIELDS[i].transform = "valoracion"}}

\* a line whose columns of field_spec hold text
LineWith(field_spec, text) == Repeat(" ", field_spec.start - 1) \o text

\* Valoracion(signo=..., importe=Decimal(...))
NewValoracion ==
    /\ \E signo \in SignoInputs : \E c \in CentsInputs :
         ret' = [op |-> "Valoracion", signo |-> signo, importe |-> Cents(c),
                 out |-> new_outcome("Valoracion", Valoracion_new(signo, Cents(c)))]
    /\ UNCHANGED <<dec, nassign, fwfile, csvfile, nif, nifres>>

\* parser._parse_field(line, field_spec)
ParseField ==
    /\ \E field_spec \in CodecFieldSpecs : \E line \in CodecLines :
         ret' = [op |-> "_parse_field", field_spec |-> field_spec, line |-> line,
                 out |-> _parse_field(line, field_spec)]
    /\ UNCHANGED <<dec, nassign, fwfile, csvfile, nif, nifres>>

\* parser._to_decimal_from_cents(sign_char, cents_str)
ToDecimalFromCents ==
    /\ \E sign_char \in {" ", "N"} : \E cents_str \in CentsStrs :
         ret' = [op |-> "_to_decimal_from_cents", sign_char |-> sign_char,
                 cents_str |-> cents_str,
                 out |-> _to_decimal_from_cents(sign_char, cents_str)]
    /\ UNCHANGED <<dec, nassign, fwfile, csvfile, nif, nifres>>

\* one signed amount given to both decoders: as sign character and cents in
\* the columns of a fixed-width field, and as str(amount) in a CSV cell
DecodeValoracion ==
    /\ \E sign_char \in {" ", "N"} : \E c \in CentsInputs : \E field_spec \in ValoracionFields :
         LET width == field_spec.end - field_spec.start + 1
             text  == <<sign_char>> \o Zfill(NatToStr(c), width - 1)
             cell  == DecimalToStr(IF sign_char = "N" THEN -Cents(c) ELSE Cents(c))
         IN ret' = [op |-> "decode_valoracion", sign_char |-> sign_char, cents |-> c,
                    field |-> field_spec.name,
                    fixed |-> _parse_field(LineWith(field_spec, text), field_spec),
                    csv |-> IF field_spec \in Range(HEADER_FIELDS)
                            THEN _parse_decimal_euros(cell) ELSE _valor_field(cell)]
    /\ UNCHANGED <<dec, nassign, fwfile, csvfile, nif, nifres>>

\* _format_field_value of a record's Valoracion, then _parse_field of the text
RoundTripValoracion ==
    /\ \E signo \in {<<" ">>, <<"N">>} : \E c \in CentsInputs : \E field_spec \in ValoracionFields :
         LET V    == Valoracion(signo, Cents(c))
             text == _format_field_value((field_spec.name :> V), field_spec)
         IN ret' = [op |-> "valoracion_round_trip", V |-> V, field_spec |-> field_spec,
                    text |-> text,
                    out |-> _parse_field(LineWith(field_spec, text), field_spec)]
    /\ UNCHANGED <<dec, nassign, fwfile, csvfile, nif, nifres>>

InitCodec ==
    /\ dec = Declaration(BaseHeader(<<>>), <<>>)
    /\ nassign = 0
    /\ fwfile = NoFile
    /\ csvfile = NoFile
    /\ ret = NoCall
    /\ nif = <<>>
    /\ nifres = "unset"

NextCodec ==
    \/ NewValoracion
    \/ ParseField
    \/ ToDecimalFromCents
    \/ DecodeValoracion
    \/ RoundTripValoracion

SpecCodec == InitCodec /\ [][NextCodec]_vars

(***************************************************************************)
(* Properties.                                                             *)
(***************************************************************************)
\* every rule a declaration breaks, none hidden by another: the exhaustive
\* list the validate() of modelo720.py returns
RECURSIVE DetallesViolations(_, _)
DetallesViolations(detalles, i) ==
    IF detalles = <<>> THEN <<>>
    ELSE Detalle720_field_errors(detalles[1], i)
           \o Failed(detail_rule_checks(detalles[1], i))
           \o DetallesViolations(Tail(detalles), i + 1)

AllViolations(d) ==
    Header720_field_errors(d.header, 0) \o Failed(header_rule_checks(d.header, 0))
      \o DetallesViolations(d.detalles, 1) \o business_problems(d)

\* the messages a validate() call reported
Reported(out) == IF out.kind = "None" THEN <<>> ELSE out.errors

\* the amount a Valoracion stands for: "N" marks a negative amount
SignedAmount(v) == IF v.signo = <<"N">> THEN -Abs(v.importe) ELSE v.importe

SumaMsg(k) ==
    Err(-1, "__model__",
        IF k = 1 THEN "SUMA VALORACION 1 no concuerda" ELSE "SUMA VALORACION 2 no concuerda")

CountMsg ==
    Err(-1, "__model__", "Numero total de registros no concuerda con el numero de detalles")

\* C1: a valid Declaration written with write_fixed_width and read back with
\* read_fixed_width comes back as a Declaration equal to it, field by field.
C1_FixedWidthRoundTrip ==
    (ret.op = "read_fixed_width" /\ fwfile = write_fixed_width(dec)
       /\ validate(dec).kind = "None")
    => ret.out = [kind |-> "Declaration", value |-> dec]

\* C2: a valid Declaration written with write_csv and read back with read_csv
\* comes back as a Declaration equal to it, sign and amount of every
\* Valoracion included.
C2_CsvRoundTrip ==
    (ret.op = "read_csv" /\ csvfile = write_csv(dec) /\ validate(dec).kind = "None")
    => ret.out = [kind |-> "Declaration", value |-> dec]

\* C3: on a fixed-width file that holds a valid declaration, the chain
\* read_fixed_width -> write_csv -> read_csv -> write_fixed_width ->
\* read_fixed_width of main.py completes and ends with an equal Declaration.
C3_LosslessChain ==
    (ret.op = "main" /\ fwfile = write_fixed_width(dec) /\ validate(dec).kind = "None")
    => ret.out.kind = "equal"

\* C4: validate() reports one message for each rule the Declaration breaks,
\* whether the rules are broken in the header, in one detail or in several.
C4_EveryViolationReported ==
    ret.op = "validate" => Len(Reported(ret.out)) = Len(AllViolations(dec))

\* C5: a fixed-width file whose header announces 3 details and which holds 2
\* detail lines is read into a Declaration of 2 details, and validate() of
\* that Declaration then reports the count mismatch.
C5_DecodeDoesNotValidate ==
    (ret.op = "read_fixed_width" /\ fwfile = write_fixed_width(dec)
       /\ dec.header.numero_total_registros = 3 /\ Len(dec.detalles) = 2)
    => /\ ret.out.kind = "Declaration"
       /\ Len(ret.out.value.detalles) = 2
       /\ CountMsg \in Range(Reported(validate(ret.out.value)))

\* C6: validate() fails whenever the header's suma_valoracion_1 or
\* suma_valoracion_2 differs from the sum of the details' amounts, by one cent
\* or by less; it reports no sum problem for an aggregate that is exactly
\* equal; and when the records are individually valid it reports the sum
\* problem of exactly the aggregates that differ.
C6_ExactReconciliation ==
    ret.op = "validate" =>
      \A k \in {1, 2} :
        LET name == IF k = 1 THEN "valoracion_1" ELSE "valoracion_2"
            hsum == IF k = 1 THEN dec.header.suma_valoracion_1.importe
                    ELSE dec.header.suma_valoracion_2.importe
            differs == hsum # SumImporte(dec.detalles, name)
            told == SumaMsg(k) \in Range(Reported(ret.out))
        IN /\ differs => ret.out.kind = "DeclarationValidationError"
           /\ told => differs
           /\ (differs /\ Header720_errors(dec.header, 0) = <<>>
                 /\ DetallesErrors(dec.detalles, 1) = <<>>) => told

\* C6 case: the second aggregate is one cent off and validate() says so
C6_Witness ==
    /\ ret.op = "validate"
    /\ dec.detalles # <<>>
    /\ dec.header.suma_valoracion_2.importe
         = SumImporte(dec.detalles, "valoracion_2") + Cents(1)
    /\ dec.header.suma_valoracion_1.importe = SumImporte(dec.detalles, "valoracion_1")
    /\ Reported(ret.out) = <<SumaMsg(2)>>

\* C7: for two details whose amounts are +1000.00 and -250.00, a header
\* aggregate of exactly 750.00 passes validate().
C7_SignedSum ==
    (/\ ret.op = "validate"
     /\ Len(dec.detalles) = 2
     /\ SignedAmount(dec.detalles[1].valoracion_1) = Cents(100000)
     /\ SignedAmount(dec.detalles[2].valoracion_1) = -Cents(25000)
     /\ dec.header.suma_valoracion_1 = Valoracion(<<" ">>, Cents(75000))
     /\ dec.header.numero_total_registros = 2
     /\ dec.header.suma_valoracion_2.importe = SumImporte(dec.detalles, "valoracion_2")
     /\ Header720_errors(dec.header, 0) = <<>>
     /\ DetallesErrors(dec.detalles, 1) = <<>>)
    => ret.out.kind = "None"

\* the table and the arithmetic of the check letter, written out
C8_Tabla ==
    <<"T", "R", "W", "A", "G", "M", "Y", "F", "P", "D", "X", "B",
      "N", "J", "Z", "S", "Q", "V", "H", "L", "C", "K", "E">>

C8_Letra(u) ==
    LET first == CASE u[1] = "X" -> 0 [] u[1] = "Y" -> 1 [] u[1] = "Z" -> 2
                   [] OTHER -> DigitVal(u[1])
        num == first * 10000000 + DigitVal(u[2]) * 1000000 + DigitVal(u[3]) * 100000
                 + DigitVal(u[4]) * 10000 + DigitVal(u[5]) * 1000 + DigitVal(u[6]) * 100
                 + DigitVal(u[7]) * 10 + DigitVal(u[8])
    IN C8_Tabla[(num % 23) + 1]

C8_Valido(s) ==
    LET u == Strip(StrUpper(s)) IN
    /\ Len(u) = 9
    /\ u[1] \in DigitSet \cup {"X", "Y", "Z"}
    /\ \A i \in 2..8 : u[i] \in DigitSet
    /\ u[9] = C8_Letra(u)

C9_LineShape ==
    ret.op = "write_fixed_width" =>
      /\ Len(fwfile) = 1 + Len(dec.detalles)
      /\ \A i \in 1..Len(fwfile) :
           /\ Len(fwfile[i]) = LINE_LEN + 1
           /\ fwfile[i][Len(fwfile[i])] = "\n"

\* the fields of a written line sit where the schema puts them
FieldsInPlace(line, record, field_specs) ==
    \A i \in 1..Len(field_specs) :
      LET f == field_specs[i]
          text == _format_field_value(record, f)
      IN /\ Len(text) = f.end - f.start + 1
         /\ _slice(line, f.start, f.end) = text

\* C10: in every written line the text of each field is exactly
\* end - start + 1 characters long and occupies columns start..end, for every
\* value the record holds.
C10_NoColumnDrift ==
    ret.op = "write_fixed_width" =>
      /\ FieldsInPlace(fwfile[1], dec.header, HEADER_FIELDS)
      /\ \A k \in 1..Len(dec.detalles) :
           FieldsInPlace(fwfile[k + 1], dec.detalles[k], DETALLE_FIELDS)

\* every field of fields lies within the line and no two fields share a column
SchemaWellFormed(fields) ==
    /\ \A i \in 1..Len(fields) :
         1 <= fields[i].start /\ fields[i].start <= fields[i].end
           /\ fields[i].end <= LINE_LEN
    /\ \A i \in 1..Len(fields) : \A j \in 1..Len(fields) :
         i # j => (fields[i].end < fields[j].start \/ fields[j].end < fields[i].start)

\* C11: within HEADER_FIELDS and within DETALLE_FIELDS every field has
\* 1 <= start <= end <= 500 and the column ranges of any two distinct fields
\* are disjoint; this holds of the schema every call of the parser works with.
C11_FieldSchema ==
    \A call \in {ret.op} :
      SchemaWellFormed(HEADER_FIELDS) /\ SchemaWellFormed(DETALLE_FIELDS)

\* C11 case: a header line and a detail line are written and each field is
\* found again in its own columns
C11_Witness ==
    /\ ret.op = "write_fixed_width"
    /\ Len(fwfile) = 3
    /\ FieldsInPlace(fwfile[1], dec.header, HEADER_FIELDS)
    /\ FieldsInPlace(fwfile[2], dec.detalles[1], DETALLE_FIELDS)
    /\ FieldsInPlace(fwfile[3], dec.detalles[2], DETALLE_FIELDS)

\* C12: read_csv never returns a Declaration that breaks a validation rule, and
\* for a CSV file written from a Declaration with an invalid nif_declarante, a
\* tipo_soporte other than T, a count mismatch or a sum mismatch it raises
\* CSV720Error and no other exception.
C12_ReadCsvValidates ==
    ret.op = "read_csv" =>
      /\ ret.out.kind = "Declaration" => validate(ret.out.value).kind = "None"
      /\ (/\ csvfile = write_csv(dec)
          /\ \/ Header720_field_errors(dec.header, 0) # <<>>
             \/ business_problems(dec) # <<>>)
         => ret.out.kind = "CSV720Error"

\* the rows lack a section marker, have DETALLES before HEADER, or have no
\* detail column-header row equal to the names of DETALLE_FIELDS in order
StructurallyBroken(rows) ==
    LET hs == FirstRow(rows, SECTION_HEADER)
        ds == FirstRow(rows, SECTION_DETALLES)
    IN \/ hs = 0
       \/ ds = 0
       \/ ds < hs
       \/ ds + 1 > Len(rows)
       \/ rows[ds + 1] # expected_columns

\* C13: read_csv raises CSV720Error, and returns no Declaration, whenever the
\* rows lack the HEADER or the DETALLES marker row, have the DETALLES marker
\* first, have no row after the DETALLES marker, or have there a row that is
\* not exactly the names of DETALLE_FIELDS in order.
C13_CsvStructuralErrors ==
    (ret.op = "read_csv" /\ StructurallyBroken(csvfile))
    => ret.out.kind = "CSV720Error"

\* the columns of field f of line hold text no value of the field is written
\* as: non-digits in an integer, a malformed or impossible date, an unknown
\* enum code, non-digit cents
Offending(line, f) ==
    LET raw == PySlice(line, f.start, f.end)
        s   == Strip(raw)
    IN CASE f.transform = "int" -> s # <<>> /\ ~IsDigits(s)
         [] f.transform = "date8" ->
              /\ s # <<>> /\ s # Repeat("0", 8)
              /\ \/ Len(s) # 8
                 \/ ~IsDigits(s)
                 \/ ~date(DigitsToInt(SubSeq(s, 1, 4)), DigitsToInt(SubSeq(s, 5, 6)),
                          DigitsToInt(SubSeq(s, 7, 8))).ok
         [] f.transform = "enum" ->
              s # <<>> /\ ~(Len(s) = 1 /\ s[1] \in EnumMembers(f.enum_class))
         [] f.transform = "valoracion" ->
              Len(raw) > 1 /\ Strip(Tail(raw)) # <<>> /\ ~IsDigits(Tail(raw))
         [] OTHER -> FALSE

\* the indices of the offending fields of the k-th non-blank line
OffendingIn(lines, k) ==
    LET fields == IF k = 1 THEN HEADER_FIELDS ELSE DETALLE_FIELDS
    IN {i \in 1..Len(fields) : Offending(lines[k], fields[i])}

\* C14: when some field of some line of the file holds a non-digit integer, a
\* malformed or impossible date, an unrecognized enum code or non-digit cents,
\* read_fixed_width raises ParserFormatError naming the first such field, in
\* schema order, of the first such line, and returns no Declaration.
C14_FormatErrorNamesField ==
    ret.op = "read_fixed_width" =>
      LET lines == SelectSeq(_iter_lines(fwfile), LAMBDA ln : Strip(ln) # <<>>)
          bad   == {k \in 1..Len(lines) : OffendingIn(lines, k) # {}}
      IN bad # {} =>
           LET k      == MinOrZero(bad)
               fields == IF k = 1 THEN HEADER_FIELDS ELSE DETALLE_FIELDS
           IN ret.out = [kind |-> "ParserFormatError",
                         field |-> fields[MinOrZero(OffendingIn(lines, k))].name]

\* C15: a call of Declaration.validate, whether it returns or raises, and a
\* call of write_fixed_width or write_csv leave the Declaration they are
\* given as it was: the same header, the same list of details, the same value
\* in every field of every record.
C15_ReadOnly ==
    [][ret'.op \in {"validate", "write_fixed_width", "write_csv"} => dec' = dec]_vars

\* C15 case: validate() has raised on a Declaration whose detail holds a NIF in
\* lower case, both files have been written, and the NIF is still as assigned
C15_Witness ==
    /\ ret.op = "validate"
    /\ ret.out.kind = "DeclarationValidationError"
    /\ fwfile # NoFile
    /\ csvfile # NoFile
    /\ Len(dec.detalles) = 1
    /\ dec.detalles[1].nif_declarado = StrLower(S_DNI)

\* C16: write_fixed_width writes the i-th detail of the Declaration as the i-th
\* detail line, and read_fixed_width of the file returns a Declaration with one
\* detail per detail line, the i-th holding the fields of the i-th line: none
\* dropped, duplicated or reordered.
C16_DetailOrder ==
    /\ ret.op = "write_fixed_width" =>
          /\ Len(fwfile) = 1 + Len(dec.detalles)
          /\ \A k \in 1..Len(dec.detalles) :
                fwfile[k + 1] = _format_detalle_line(dec.detalles[k]) \o <<"\n">>
    /\ (ret.op = "read_fixed_width" /\ fwfile = write_fixed_width(dec))
         => /\ ret.out.kind = "Declaration"
            /\ Len(ret.out.value.detalles) = Len(fwfile) - 1
            /\ \A k \in 1..(Len(fwfile) - 1) :
                  FieldsInPlace(fwfile[k + 1], ret.out.value.detalles[k], DETALLE_FIELDS)

\* the violations a constructor call or a validate() call reported
Rejections(out) ==
    IF out.kind \in {"ValidationError", "DeclarationValidationError"} THEN out.errors
    ELSE <<>>

Messages(out) == {Rejections(out)[i].msg : i \in 1..Len(Rejections(out))}

\* the legal sub-types of each asset type
SubclaveInRange(bien, sub) ==
    CASE bien = "I" -> sub = 0
      [] bien = "C" -> sub \in 1..5
      [] bien = "V" -> sub \in 1..3
      [] bien = "S" -> sub \in 1..2
      [] bien = "B" -> sub \in 1..5

SubclaveMsg(bien) ==
    CASE bien = "I" -> "subclave must be 0 for clave_tipo_bien 'I'"
      [] bien = "C" -> "subclave debe ser 1-5 para clave_tipo_bien 'C'"
      [] bien = "V" -> "subclave debe ser 1-3 para clave_tipo_bien 'V'"
      [] bien = "S" -> "subclave debe ser 1-2 para clave_tipo_bien 'S'"
      [] bien = "B" -> "subclave debe ser 1-5 para clave_tipo_bien 'B'"

\* C17: a detail passes the sub-type check iff its subclave is 0 for I, in 1..5
\* for C, in 1..3 for V, in 1..2 for S and in 1..5 for B: a pair in range is
\* never reported as a sub-type violation, a pair out of range is always
\* rejected, and when the fields of the record are individually valid, so that
\* the check is reached, the violation reported is the sub-type one of its
\* asset type.
C17_SubclaveRange ==
    ret.op \in {"Detalle720", "validate"} =>
      LET d    == dec.detalles[1]
          inr  == SubclaveInRange(d.clave_tipo_bien, d.subclave)
          told == Messages(ret.out) \cap {SubclaveMsg(b) : b \in ClaveBien}
      IN /\ inr => told = {}
         /\ ~inr => Rejections(ret.out) # <<>>
         /\ (~inr /\ Detalle720_field_errors(d, 1) = <<>>)
              => told = {SubclaveMsg(d.clave_tipo_bien)}

\* C17 case: securities with subclave 4, rejected by Detalle720(...) with the
\* sub-type message for V
C17_Witness ==
    /\ ret.op = "Detalle720"
    /\ dec.detalles[1].clave_tipo_bien = "V"
    /\ dec.detalles[1].subclave = 4
    /\ Rejections(ret.out) = <<Err(1, "__model__", SubclaveMsg("V"))>>

\* C18: a detail whose clave_tipo_bien is C, S or B is rejected unless its
\* clave_identificacion is 0, its identificacion_valores and clave_repr_valores
\* are blank and both parts of its numero_valores are 0.
C18_NoSecuritiesFields ==
    ret.op \in {"Detalle720", "validate"} =>
      LET d == dec.detalles[1] IN
      (/\ d.clave_tipo_bien \in {"C", "S", "B"}
       /\ ~(/\ d.clave_identificacion = 0
            /\ IsBlank(d.identificacion_valores)
            /\ IsBlank(d.clave_repr_valores)
            /\ d.numero_valores_entera = 0
            /\ d.numero_valores_decimal = 0))
      => Rejections(ret.out) # <<>>

\* the three messages of the header's amendment rules
AmendmentMsgs ==
    {"complementaria y sustitutiva al mismo tiempo",
     "Se requiere numero_identificativo_anterior",
     "El numero_identificativo_anterior debe tener 13 digitos"}

\* a prior filing identifier is present and is 13 digits
HasPriorId(h) ==
    /\ h.numero_identificativo_anterior # NoneStr
    /\ Len(h.numero_identificativo_anterior) = 13
    /\ \A i \in 1..13 : h.numero_identificativo_anterior[i] \in DigitSet

\* C19: a header with both declaracion_complementaria and
\* declaracion_sustitutiva set is rejected; a header with either flag set is
\* rejected unless numero_identificativo_anterior is present and is exactly 13
\* digits; with neither flag set no prior identifier is needed and no
\* amendment rule is reported; and when the header's fields are individually
\* valid an amendment rule is reported exactly when one of the two is broken.
C19_AmendmentRules ==
    ret.op \in {"Header720", "validate"} =>
      LET h       == dec.header
          both    == h.declaracion_complementaria /\ h.declaracion_sustitutiva
          flagged == h.declaracion_complementaria \/ h.declaracion_sustitutiva
          broken  == both \/ (flagged /\ ~HasPriorId(h))
          told    == Messages(ret.out) \cap AmendmentMsgs
      IN /\ broken => Rejections(ret.out) # <<>>
         /\ ~broken => told = {}
         /\ ~flagged => told = {}
         /\ (~flagged /\ h.numero_identificativo_anterior = NoneStr
               /\ Header720_field_errors(h, 0) = <<>>) => Rejections(ret.out) = <<>>
         /\ (broken /\ Header720_field_errors(h, 0) = <<>>) => told # {}

\* C19 case: a complementary declaration whose prior identifier has 12 digits,
\* rejected by Header720(...) for that reason alone
C19_Witness ==
    /\ ret.op = "Header720"
    /\ dec.header.declaracion_complementaria
    /\ ~dec.header.declaracion_sustitutiva
    /\ Len(dec.header.numero_identificativo_anterior) = 12
    /\ Rejections(ret.out)
         = <<Err(0, "__model__", "El numero_identificativo_anterior debe tener 13 digitos")>>

\* the errors reported on the header's numero_identificativo
OnNumeroIdentificativo(out) ==
    {i \in 1..Len(Rejections(out)) :
        Rejections(out)[i].rec = 0 /\ Rejections(out)[i].field = "numero_identificativo"}

\* C20: the header's numero_identificativo is accepted iff it is exactly 13
\* digits and begins with 720; a value of another length, with a non-digit or
\* with another prefix is reported as a violation of that field.
C20_NumeroIdentificativo ==
    ret.op \in {"Header720", "validate"} =>
      LET v    == dec.header.numero_identificativo
          good == /\ Len(v) = 13
                  /\ \A i \in 1..13 : v[i] \in DigitSet
                  /\ v[1] = "7" /\ v[2] = "2" /\ v[3] = "0"
      IN /\ good <=> OnNumeroIdentificativo(ret.out) = {}
         /\ ~good => Rejections(ret.out) # <<>>

\* C20 case: 13 digits that begin with 730, rejected by validate() for the prefix
C20_Witness ==
    /\ ret.op = "validate"
    /\ dec.header.numero_identificativo
         = <<"7", "3", "0", "1", "1", "1", "1", "1", "1", "1", "1", "1", "9">>
    /\ Rejections(ret.out)
         = <<Err(0, "numero_identificativo", "El numero identificativo debe comenzar con 720")>>

\* the two messages of the checks on clave_tipo_bien_inmueble
InmuebleMsgs ==
    {"clave_tipo_bien_inmueble debe ser 'U', 'R', o en blanco",
     "clave_tipo_bien_inmueble es obligatorio"}

\* the record's fields are individually valid and no rule that
\* validate_detail_rules checks before the extinction date is broken
ReachesExtincion(d) ==
    /\ Detalle720_field_errors(d, 1) = <<>>
    /\ SubclaveInRange(d.clave_tipo_bien, d.subclave)
    /\ ~(d.clave_tipo_bien = "B" /\ d.subclave = 5 /\ IsBlank(d.tipo_derecho_real_inmueble))

\* C21: a detail whose clave_tipo_bien is B is rejected unless its
\* clave_tipo_bien_inmueble is U or R: an empty or blank flag is rejected and
\* so is any other character; U and R are never reported for the flag; and
\* when nothing checked earlier fails, the violation reported is the one of the
\* flag (obligatory when blank, 'U' or 'R' otherwise).
C21_InmuebleFlag ==
    ret.op \in {"Detalle720", "validate"} =>
      LET d    == dec.detalles[1]
          flag == d.clave_tipo_bien_inmueble
          good == flag \in {<<"U">>, <<"R">>}
          told == Messages(ret.out) \cap InmuebleMsgs
          reached == ReachesExtincion(d) /\ ~(d.origen = "C" /\ d.fecha_extincion = NoDate)
      IN d.clave_tipo_bien = "B" =>
           /\ ~good => Rejections(ret.out) # <<>>
           /\ good => told = {}
           /\ (~good /\ reached /\ IsBlank(flag))
                => told = {"clave_tipo_bien_inmueble es obligatorio"}
           /\ (~good /\ reached /\ ~IsBlank(flag))
                => told = {"clave_tipo_bien_inmueble debe ser 'U', 'R', o en blanco"}

\* C21 case: movable property whose flag is a single space, rejected by
\* Detalle720(...) because the flag is obligatory
C21_Witness ==
    /\ ret.op = "Detalle720"
    /\ dec.detalles[1].clave_tipo_bien = "B"
    /\ dec.detalles[1].clave_tipo_bien_inmueble = <<" ">>
    /\ Rejections(ret.out) = <<Err(1, "__model__", "clave_tipo_bien_inmueble es obligatorio")>>

ExtincionMsg == "origen 'C' requires fecha_extincion"

\* C22: a detail with origen C and no fecha_extincion is rejected, and the
\* missing date is the violation reported when nothing checked earlier fails;
\* a detail with origen A or M, or one that has a fecha_extincion, is never
\* reported for a missing extinction date.
C22_ExtinctionDate ==
    ret.op \in {"Detalle720", "validate"} =>
      LET d       == dec.detalles[1]
          missing == d.fecha_extincion = NoDate
          needed  == d.origen = "C"
      IN /\ (needed /\ missing) => Rejections(ret.out) # <<>>
         /\ (needed /\ missing /\ ReachesExtincion(d)) => ExtincionMsg \in Messages(ret.out)
         /\ (d.origen \in {"A", "M"} /\ missing) => ExtincionMsg \notin Messages(ret.out)
         /\ ~missing => ExtincionMsg \notin Messages(ret.out)
         /\ (d.origen \in {"A", "M"} /\ missing /\ ReachesExtincion(d)
               /\ FirstFailed(detail_rule_checks(d, 1)) = <<>>)
              => Rejections(ret.out) = <<>>

\* C22 case: a bank account with origen C and no fecha_extincion, rejected by
\* validate() for the missing date
C22_Witness ==
    /\ ret.op = "validate"
    /\ dec.detalles[1].clave_tipo_bien = "C"
    /\ dec.detalles[1].origen = "C"
    /\ dec.detalles[1].fecha_extincion = NoDate
    /\ ExtincionMsg \in Messages(ret.out)

\* the errors a call reported on one field of one record (0: the header)
OnField(out, rec, field) ==
    {i \in 1..Len(Rejections(out)) :
        Rejections(out)[i].rec = rec /\ Rejections(out)[i].field = field}

\* a national-ID field holding v is checked whenever it is non-blank, and only then
NifFieldChecked(out, rec, field, v) ==
    /\ (~IsBlank(v) /\ ~validar_nif(v)) => OnField(out, rec, field) # {}
    /\ (~IsBlank(v) /\ validar_nif(v) /\ Len(v) <= 9) => OnField(out, rec, field) = {}
    /\ IsBlank(v) => OnField(out, rec, field) = {}

\* C23: each national-ID field (the header's nif_declarante, a detail's
\* nif_declarante, nif_declarado and nif_representante) is checked with
\* validar_nif whenever it is non-blank: a non-blank value that fails
\* validar_nif is reported as a violation of the field, and a blank value is
\* never reported as one.
C23_NifFields ==
    /\ ret.op \in {"Header720", "validate"}
         => NifFieldChecked(ret.out, 0, "nif_declarante", dec.header.nif_declarante)
    /\ (ret.op \in {"Detalle720", "validate"} /\ dec.detalles # <<>>)
         => \A f \in {"nif_declarante", "nif_declarado", "nif_representante"} :
               NifFieldChecked(ret.out, 1, f, dec.detalles[1][f])

\* C24: constructing a Valoracion whose signo is neither ' ' nor 'N' (an 'X',
\* a '+') is rejected with a validation error.
C24_InvalidSigno ==
    (ret.op = "Valoracion" /\ ret.signo \notin {<<" ">>, <<"N">>})
    => ret.out.kind = "ValidationError"

\* a Valoracion that keeps the sign in signo alone: ' ' or 'N', and an importe
\* that is not negative and has two decimals
SignInSignoOnly(v) ==
    /\ v.signo \in {<<" ">>, <<"N">>}
    /\ v.importe >= 0
    /\ v.importe % 10 = 0

\* C25: each decoder, for a header sum as for a detail amount, produces a
\* Valoracion whose sign is in signo only ('N' exactly for a negative amount)
\* and whose importe is the non-negative amount with two decimals; the
\* fixed-width decoder and the CSV decoder produce the same Valoracion for the
\* same signed amount.
C25_DecodedValoracion ==
    ret.op = "decode_valoracion" =>
      /\ ret.fixed.ok /\ ret.csv.ok
      /\ SignInSignoOnly(ret.fixed.v) /\ SignInSignoOnly(ret.csv.v)
      /\ ret.fixed.v.importe = Cents(ret.cents)
      /\ ret.fixed.v = ret.csv.v

\* the columns of the field are all spaces, or the line ends before them
AllSpaces(line, field_spec) ==
    \A i \in field_spec.start..field_spec.end : i <= Len(line) => line[i] = " "

\* C26: a text field whose columns are all spaces decodes to the empty string,
\* never to an absent value, whether the field is required (the default) or
\* optional; any other slice decodes to itself with the trailing spaces removed.
C26_BlankTextField ==
    (ret.op = "_parse_field" /\ ret.field_spec.transform = "str") =>
      LET raw == _slice(ret.line, ret.field_spec.start, ret.field_spec.end)
      IN /\ ret.out.ok
         /\ ret.out.v # NoneStr
         /\ AllSpaces(ret.line, ret.field_spec) => ret.out.v = <<>>
         /\ ~AllSpaces(ret.line, ret.field_spec)
              => /\ ret.out.v \o Repeat(" ", Len(raw) - Len(ret.out.v)) = raw
                 /\ ret.out.v[Len(ret.out.v)] # " "

\* C27: an enum field whose slice is blank decodes to 'absent' only when the
\* field is optional; for a required field a blank slice fails to decode, as
\* does a slice that, stripped, is not a code of the enumeration; a code
\* decodes to itself.
C27_EnumField ==
    (ret.op = "_parse_field" /\ ret.field_spec.transform = "enum") =>
      LET raw   == _slice(ret.line, ret.field_spec.start, ret.field_spec.end)
          codes == {c \in EnumMembers(ret.field_spec.enum_class) :
                       \E l \in 0..2 : \E r \in 0..2 :
                          raw = Repeat(" ", l) \o <<c>> \o Repeat(" ", r)}
      IN /\ (AllSpaces(ret.line, ret.field_spec) /\ ~ret.field_spec.required)
              => ret.out = Ok("None")
         /\ (AllSpaces(ret.line, ret.field_spec) /\ ret.field_spec.required)
              => ~ret.out.ok
         /\ (~AllSpaces(ret.line, ret.field_spec) /\ codes = {}) => ~ret.out.ok
         /\ \A c \in codes : ret.out = Ok(c)

\* C28: _to_decimal_from_cents(s, c) is int(c)/100, negated exactly when s is
\* 'N'; an empty or all-space c gives 0.00; a c with a character that is no
\* digit fails.  _format_field_value writes a Valoracion as its sign character
\* followed by its amount in cents, zero-padded to the digits of the field, and
\* decoding that text gives the Valoracion back, negative ones included.
C28_SignedCents ==
    /\ ret.op = "_to_decimal_from_cents" =>
         LET c == ret.cents_str IN
         /\ (\A i \in 1..Len(c) : c[i] = " ") => ret.out = Ok(0)
         /\ \A n \in CentsInputs :
              (c # <<>> /\ c = Zfill(NatToStr(n), Len(c)))
                => ret.out = Ok(IF ret.sign_char = "N" THEN -Cents(n) ELSE Cents(n))
         /\ (\E i \in 1..Len(c) : c[i] \notin DigitSet \cup {" "}) => ~ret.out.ok
         /\ (\E i \in 1..Len(c) : \E j \in 1..Len(c) : c[i] = " " /\ c[j] # " ")
              => ~ret.out.ok
    /\ ret.op = "valoracion_round_trip" =>
         LET width == ret.field_spec.end - ret.field_spec.start + 1 IN
         /\ ret.text = ret.V.signo \o Zfill(NatToStr(ret.V.importe \div 10), width - 1)
         /\ ret.out = Ok(ret.V)

\* no line of the file has a character that is not white space
NoNonBlankLine(file) ==
    \A i \in 1..Len(file) : \A j \in 1..Len(file[i]) : file[i][j] \in {" ", "\n", "\r"}

\* C29: read_fixed_width of an input with no non-blank line (an empty input,
\* or only empty or whitespace-only lines) returns no Declaration: it fails,
\* and with a ParserFormatError as every other failure to decode a
\* fixed-width file does.
C29_EmptyInput ==
    (ret.op = "read_fixed_width" /\ fwfile # NoFile /\ NoNonBlankLine(fwfile))
    => ret.out.kind = "ParserFormatError"

\* the 8 characters before the control letter are a DNI body or a NIE body
IsBody(b) ==
    /\ Len(b) = 8
    /\ \A i \in 2..8 : b[i] \in DigitSet
    /\ b[1] \in DigitSet \cup {"X", "Y", "Z"}

\* the letters A-Z that validar_nif accepts after body
ControlLetters(body) == {c \in Range(UpperChars) : validar_nif(body \o <<c>>)}

\* C30: the control letter is a function of the body: for a body of 8 digits,
\* or of X, Y or Z and 7 digits, exactly one of the 26 letters A-Z makes
\* validar_nif true, so a valid code with only its control letter changed is
\* invalid.
C30_OneControlLetter ==
    (nifres # "unset" /\ Len(nif) = 9 /\ IsBody(SubSeq(nif, 1, 8))
       /\ nif[9] \in Range(UpperChars))
    => LET body == SubSeq(nif, 1, 8) IN
       /\ Cardinality(ControlLetters(body)) = 1
       /\ nifres = "True" <=> ControlLetters(body) = {nif[9]}
       /\ nifres = "True"
            => \A c \in Range(UpperChars) \ {nif[9]} : ~validar_nif(body \o <<c>>)

\* C30 case: 12345678Z found valid, and 12345678 with any other letter is not
C30_Witness ==
    /\ nif = S_DNI
    /\ nifres = "True"
    /\ ControlLetters(SubSeq(S_DNI, 1, 8)) = {"Z"}

====
